---- MODULE Spec2Model ----
(***************************************************************************)
(* A model of the tree simulation of tree-sprites: the slot store of       *)
(* src/game/game_state.rs, its region iterators, the shading routines and  *)
(* the per-tick update.                                                    *)
(*                                                                         *)
(* Numbers.  Lengths are fixed-point: one tile (TILE_DIM = 1.0) is         *)
(* TILE_DIM = 20 units, so every shadow radius of trees.rs (0.25 .. 0.9)   *)
(* is a whole number of units.  Times, growth and multipliers are          *)
(* fixed-point in thousandths (ONE = 1.0).  A shade_factor is a product of *)
(* occlusion factors 1 - smoothstep(r, 0, d); it is kept in factored form  *)
(* (which factor, how many times) so that multiplying and dividing are     *)
(* exact, with the IEEE results 0, NaN and +inf kept apart; Value gives    *)
(* its fixed-point reading where the code reads it as a number.            *)
(***************************************************************************)
EXTENDS Integers, Sequences, FiniteSets, TLC

(***************************************************************************)
(* Bounds of the model (the program's constants, scaled down).             *)
(***************************************************************************)
MaxGridDim == 2
MaxTreesPerTile == 3
MaxInitialTrees == 1

GRID_DIM == MaxGridDim
GRID_SIZE == GRID_DIM * GRID_DIM
NUM_TREES_PER_TILE == MaxTreesPerTile
MAX_NUM_TREES == GRID_SIZE * NUM_TREES_PER_TILE
NUM_INITIAL_TREES == MaxInitialTrees
TILE_DIM == 20

ONE == 10 * 10 * 10
NaN == 0 - (2 ^ 30)
INF == 2 ^ 30

tile_index(x, y) == x + (y * GRID_DIM)
tree_slot_index(tile, t) == (tile * NUM_TREES_PER_TILE) + t
tree_slot_index_xyt(x, y, t) == tree_slot_index(tile_index(x, y), t)

Tiles == 0 .. (GRID_SIZE - 1)
Slots == 0 .. (MAX_NUM_TREES - 1)

(***************************************************************************)
(* f32 arithmetic on fixed-point readings, with NaN and +inf.              *)
(***************************************************************************)
Min(a, b) == IF a <= b THEN a ELSE b
Max(a, b) == IF a >= b THEN a ELSE b

FMul(a, b) ==
    IF a = NaN \/ b = NaN THEN NaN
    ELSE IF a = INF \/ b = INF
         THEN (IF a = 0 \/ b = 0 THEN NaN ELSE INF)
         ELSE (a * b) \div ONE

FDiv(a, b) ==
    IF a = NaN \/ b = NaN THEN NaN
    ELSE IF a = INF THEN (IF b = INF THEN NaN ELSE INF)
    ELSE IF b = INF THEN 0
    ELSE IF b = 0 THEN (IF a = 0 THEN NaN ELSE INF)
    ELSE (a * ONE) \div b

FAdd(a, b) ==
    IF a = NaN \/ b = NaN THEN NaN
    ELSE IF a = INF \/ b = INF THEN INF
    ELSE a + b

FSub(a, b) ==
    IF a = NaN \/ b = NaN THEN NaN
    ELSE IF b = INF THEN (IF a = INF THEN NaN ELSE 0 - INF)
    ELSE IF a = INF THEN INF
    ELSE a - b

FLe(a, b) == a # NaN /\ b # NaN /\ a <= b
FGt(a, b) == a # NaN /\ b # NaN /\ a > b

\* sqrt on whole units: exact on squares, rounded up otherwise, so that
\* Sqrt(n) <= r exactly when n <= r * r, and Sqrt(n) = 0 only for n = 0.
RECURSIVE SqrtFrom(_, _)
SqrtFrom(n, k) == IF k * k >= n THEN k ELSE SqrtFrom(n, k + 1)
Sqrt(n) == SqrtFrom(n, 0)

\* smoothstep on lengths (whole units), its value in thousandths.  The
\* clamped ratio x = (x0 - min) / (max - min) is the fraction n / m, and
\* x * x * x * (x * (x * 6 - 15) + 10) is taken of it exactly and rounded
\* down once.  A zero denominator gives the IEEE quotient: NaN for 0 / 0,
\* an infinity otherwise, which the clamp brings to 1.0 or 0.0.
smoothstep(min, max, x0) ==
    LET sign == IF max - min < 0 THEN 0 - 1 ELSE 1
        m    == sign * (max - min)
        n    == Max(0, Min(m, sign * (x0 - min)))
    IN  IF m = 0
        THEN (IF x0 = min THEN NaN ELSE IF x0 > min THEN ONE ELSE 0)
        ELSE (((n * n * n) * ((6 * n * n) - (15 * n * m) + (10 * m * m))) * ONE)
                 \div (m * m * m * m * m)

(***************************************************************************)
(* position.rs                                                             *)
(***************************************************************************)
normalize(p) ==
    LET floor_x == p.offset.x \div TILE_DIM
        floor_y == p.offset.y \div TILE_DIM
    IN  [coord  |-> [x |-> p.coord.x + floor_x, y |-> p.coord.y + floor_y],
         offset |-> [x |-> p.offset.x - (floor_x * TILE_DIM),
                     y |-> p.offset.y - (floor_y * TILE_DIM)]]

PosSub(a, b) ==
    normalize([coord  |-> [x |-> a.coord.x - b.coord.x, y |-> a.coord.y - b.coord.y],
               offset |-> [x |-> a.offset.x - b.offset.x, y |-> a.offset.y - b.offset.y]])

PosAdd(a, b) ==
    normalize([coord  |-> [x |-> a.coord.x + b.coord.x, y |-> a.coord.y + b.coord.y],
               offset |-> [x |-> a.offset.x + b.offset.x, y |-> a.offset.y + b.offset.y]])

PosSubOffset(a, off) ==
    normalize([coord  |-> a.coord,
               offset |-> [x |-> a.offset.x - off.x, y |-> a.offset.y - off.y]])

PosAddOffset(a, off) ==
    normalize([coord  |-> a.coord,
               offset |-> [x |-> a.offset.x + off.x, y |-> a.offset.y + off.y]])

distance_sq(self, other) ==
    LET diff   == PosSub(other, self)
        diff_x == (diff.coord.x * TILE_DIM) + diff.offset.x
        diff_y == (diff.coord.y * TILE_DIM) + diff.offset.y
    IN  (diff_x * diff_x) + (diff_y * diff_y)

distance(self, other) == Sqrt(distance_sq(self, other))

(***************************************************************************)
(* trees.rs                                                                *)
(***************************************************************************)
Stages == <<"Sprout", "Seedling", "Sapling", "Mature", "Old", "Decline", "Snag", "Stump">>
StageSet == {Stages[i] : i \in 1 .. Len(Stages)}
StageRank(s) == CHOOSE i \in 1 .. Len(Stages) : Stages[i] = s

\* next() that sends Old back to Mature.
StageNextBack(s) ==
    IF s = "Stump" THEN "Stump"
    ELSE IF s = "Old" THEN "Mature" ELSE Stages[StageRank(s) + 1]

StageNext(s) == IF s = "Stump" THEN "Stump" ELSE Stages[StageRank(s) + 1]

soil_preference(species) ==
    CASE species = "Ash"        -> "Normal"
      [] species = "Fir"        -> "Stony"
      [] species = "CottonWood" -> "Normal"

shadow_radius(species, growth_stage) ==
    CASE species = "Ash" ->
            (CASE growth_stage = "Sapling" -> 11
               [] growth_stage = "Mature"  -> 18
               [] growth_stage = "Old"     -> 16
               [] growth_stage = "Decline" -> 11
               [] OTHER -> 0)
      [] species = "Fir" ->
            (CASE growth_stage = "Seedling" -> 5
               [] growth_stage = "Sapling"  -> 11
               [] growth_stage = "Mature"   -> 14
               [] growth_stage = "Old"      -> 13
               [] growth_stage = "Decline"  -> 11
               [] OTHER -> 0)
      [] species = "CottonWood" ->
            (CASE growth_stage = "Seedling" -> 5
               [] growth_stage = "Sapling"  -> 14
               [] growth_stage = "Mature"   -> 18
               [] growth_stage = "Old"      -> 18
               [] growth_stage = "Decline"  -> 16
               [] OTHER -> 0)

\* Some(v) is <<v>>, None is <<>>.
None == <<>>
Some(v) == <<v>>
is_some(o) == o # None
unwrap(o) == o[1]

growth_required(species, stage) ==
    CASE stage = "Stump" -> None
      [] species = "Ash" ->
            Some(ONE * (CASE stage = "Sprout" -> 1 [] stage = "Seedling" -> 5
                          [] stage = "Sapling" -> 20 [] stage = "Mature" -> 45
                          [] stage = "Old" -> 40 [] stage = "Decline" -> 20
                          [] stage = "Snag" -> 10))
      [] species = "Fir" ->
            Some(ONE * (CASE stage = "Sprout" -> 5 [] stage = "Seedling" -> 15
                          [] stage = "Sapling" -> 20 [] stage = "Mature" -> 60
                          [] stage = "Old" -> 60 [] stage = "Decline" -> 20
                          [] stage = "Snag" -> 10))
      [] species = "CottonWood" ->
            Some(ONE * (CASE stage = "Sprout" -> 2 [] stage = "Seedling" -> 3
                          [] stage = "Sapling" -> 10 [] stage = "Mature" -> 80
                          [] stage = "Old" -> 75 [] stage = "Decline" -> 30
                          [] stage = "Snag" -> 15))

growth_required_for_next_stage(t) == growth_required(t.species, t.stage)

\* The shade_factor 1.0: the empty product.
ShadeOne == [kind |-> "fin", f |-> <<>>]

TreeNew(species, position) ==
    [position        |-> position,
     species         |-> species,
     stage           |-> "Sprout",
     growth          |-> 0,
     base_growth_speed |-> ONE,
     growth_target   |-> growth_required(species, "Sprout"),
     seed_timer      |-> ONE,
     shade_factor    |-> ShadeOne]

is_alive(t) == t.stage # "Snag" /\ t.stage # "Stump"

\* grow() that goes on to a second stage when the growth is past the new target too.
grow_past_target(t, dt_s) ==
    LET g       == FAdd(t.growth, FMul(t.base_growth_speed, dt_s))
        Adv(tr) == IF is_some(tr.growth_target) /\ FGt(g, unwrap(tr.growth_target))
                   THEN LET st  == StageNext(tr.stage)
                            req == growth_required(tr.species, st)
                        IN  [tr EXCEPT !.stage = st,
                                       !.growth_target =
                                           IF is_some(req)
                                           THEN Some(unwrap(tr.growth_target) + unwrap(req))
                                           ELSE None]
                   ELSE tr
        grown   == IF is_some(t.growth_target)
                   THEN Adv(Adv([t EXCEPT !.growth = g]))
                   ELSE t
    IN  IF grown.stage \in {"Mature", "Old", "Decline"}
        THEN [grown EXCEPT !.seed_timer = FSub(@, dt_s)]
        ELSE grown

\* grow() that adds the growth before it looks for a target.
grow_adds_without_target(t, dt_s) ==
    LET g == FAdd(t.growth, FMul(t.base_growth_speed, dt_s))
        grown ==
            IF is_some(t.growth_target) /\ FGt(g, unwrap(t.growth_target))
            THEN LET st  == StageNext(t.stage)
                     req == growth_required(t.species, st)
                 IN  [t EXCEPT !.growth = g,
                               !.stage = st,
                               !.growth_target =
                                   IF is_some(req)
                                   THEN Some(unwrap(t.growth_target) + unwrap(req))
                                   ELSE None]
            ELSE [t EXCEPT !.growth = g]
    IN  IF grown.stage \in {"Mature", "Old", "Decline"}
        THEN [grown EXCEPT !.seed_timer = FSub(@, dt_s)]
        ELSE grown

grow(t, dt_s) ==
    LET grown ==
            IF is_some(t.growth_target)
            THEN LET target == unwrap(t.growth_target)
                     g      == FAdd(t.growth, FMul(t.base_growth_speed, dt_s))
                 IN  IF FGt(g, target)
                     THEN LET st  == StageNext(t.stage)
                              req == growth_required(t.species, st)
                          IN  [t EXCEPT !.growth = g,
                                        !.stage = st,
                                        !.growth_target =
                                            IF is_some(req)
                                            THEN Some(target + unwrap(req))
                                            ELSE None]
                     ELSE [t EXCEPT !.growth = g]
            ELSE t
    IN  IF grown.stage \in {"Mature", "Old", "Decline"}
        THEN [grown EXCEPT !.seed_timer = FSub(@, dt_s)]
        ELSE grown

(***************************************************************************)
(* shade_factor arithmetic.  A finite non-zero shade_factor is the product *)
(* of the factors 1 - smoothstep(r, 0, d), 0 < d < r, each raised to the   *)
(* power f[<<r, d>>]; at d = 0 the factor is 0.0 and at d >= r it is 1.0.  *)
(***************************************************************************)
ShadeZero == [kind |-> "zero", f |-> <<>>]
ShadeNaN  == [kind |-> "nan",  f |-> <<>>]
ShadeInf  == [kind |-> "inf",  f |-> <<>>]

\* 1.0 - smoothstep(r, 0.0, d) as a number.
OcclusionValue(r, d) == FSub(ONE, smoothstep(r, 0, d))

Bump(f, k, n) ==
    LET e == (IF k \in DOMAIN f THEN f[k] ELSE 0) + n
        D == IF e = 0 THEN (DOMAIN f) \ {k} ELSE (DOMAIN f) \cup {k}
    IN  [j \in D |-> IF j = k THEN e ELSE f[j]]

\* sh * (1.0 - smoothstep(r, 0.0, d))
ShadeMul(sh, r, d) ==
    IF sh.kind = "nan" THEN ShadeNaN
    ELSE IF d <= 0
         THEN (IF sh.kind = "inf" THEN ShadeNaN ELSE ShadeZero)
         ELSE IF d >= r \/ sh.kind \in {"zero", "inf"} THEN sh
              ELSE [kind |-> "fin", f |-> Bump(sh.f, <<r, d>>, 1)]

\* sh / (1.0 - smoothstep(r, 0.0, d))
ShadeDiv(sh, r, d) ==
    IF sh.kind = "nan" THEN ShadeNaN
    ELSE IF d <= 0
         THEN (IF sh.kind = "zero" THEN ShadeNaN ELSE ShadeInf)
         ELSE IF d >= r \/ sh.kind \in {"zero", "inf"} THEN sh
              ELSE [kind |-> "fin", f |-> Bump(sh.f, <<r, d>>, 0 - 1)]

KeyBefore(a, b) == a[1] < b[1] \/ (a[1] = b[1] /\ a[2] <= b[2])
FirstKey(K) == CHOOSE a \in K : \A b \in K : KeyBefore(a, b)

RECURSIVE Power(_, _, _)
Power(v, x, n) ==
    IF n = 0 THEN v
    ELSE IF n > 0 THEN Power(FMul(v, x), x, n - 1)
         ELSE Power(FDiv(v, x), x, n + 1)

RECURSIVE ValueOver(_, _, _)
ValueOver(f, K, v) ==
    IF K = {} THEN v
    ELSE LET k == FirstKey(K)
         IN  ValueOver(f, K \ {k}, Power(v, OcclusionValue(k[1], k[2]), f[k]))

\* The shade_factor read as a number.
Value(sh) ==
    CASE sh.kind = "nan"  -> NaN
      [] sh.kind = "inf"  -> INF
      [] sh.kind = "zero" -> 0
      [] sh.kind = "fin"  -> ValueOver(sh.f, DOMAIN sh.f, ONE)

(***************************************************************************)
(* tree_region_iterator.rs                                                 *)
(***************************************************************************)
TreeRegionIterator_new(min, max) ==
    [min_x |-> min[1], min_y |-> min[2], max_x |-> max[1], max_y |-> max[2],
     curr_x |-> min[1], curr_y |-> min[2], tree_sub_index |-> 0]

\* The cursor returning to column 0, not to min_x, at the end of a row.
AdvanceFromZero(it) ==
    IF it.tree_sub_index + 1 >= NUM_TREES_PER_TILE
    THEN IF it.curr_x = it.max_x
         THEN [it EXCEPT !.tree_sub_index = 0, !.curr_x = 0, !.curr_y = @ + 1]
         ELSE [it EXCEPT !.tree_sub_index = 0, !.curr_x = @ + 1]
    ELSE [it EXCEPT !.tree_sub_index = @ + 1]

\* The iterator after the cursor has moved one slot on.
Advance(it) ==
    IF it.tree_sub_index + 1 >= NUM_TREES_PER_TILE
    THEN IF it.curr_x = it.max_x
         THEN [it EXCEPT !.tree_sub_index = 0, !.curr_x = it.min_x, !.curr_y = @ + 1]
         ELSE [it EXCEPT !.tree_sub_index = 0, !.curr_x = @ + 1]
    ELSE [it EXCEPT !.tree_sub_index = @ + 1]

\* next(): the yielded slot index (None at the end) and the iterator afterwards.
RECURSIVE TreeRegionIterator_next(_, _)
TreeRegionIterator_next(it, trs) ==
    IF it.curr_y <= it.max_y
    THEN LET slot_index == tree_slot_index_xyt(it.curr_x, it.curr_y, it.tree_sub_index)
             result     == trs[slot_index]
         IN  IF is_some(result)
             THEN [item |-> Some(slot_index), it |-> Advance(it)]
             ELSE TreeRegionIterator_next(Advance(it), trs)
    ELSE [item |-> None, it |-> it]

RECURSIVE TreeRegionIteratorMut_next(_, _)
TreeRegionIteratorMut_next(it, trs) ==
    IF it.curr_y <= it.max_y
    THEN LET slot_index == tree_slot_index_xyt(it.curr_x, it.curr_y, it.tree_sub_index)
             result     == trs[slot_index]
         IN  IF is_some(result)
             THEN [item |-> Some(slot_index), it |-> Advance(it)]
             ELSE TreeRegionIteratorMut_next(Advance(it), trs)
    ELSE [item |-> None, it |-> it]

\* The slot indices an iterator yields until it ends, in order.
RECURSIVE Collect(_, _)
Collect(it, trs) ==
    LET n == TreeRegionIterator_next(it, trs)
    IN  IF is_some(n.item) THEN <<unwrap(n.item)>> \o Collect(n.it, trs) ELSE <<>>

RECURSIVE CollectMut(_, _)
CollectMut(it, trs) ==
    LET n == TreeRegionIteratorMut_next(it, trs)
    IN  IF is_some(n.item) THEN <<unwrap(n.item)>> \o CollectMut(n.it, trs) ELSE <<>>

(***************************************************************************)
(* game_state.rs: radius queries.  The centre is a position on the grid    *)
(* and the radius is >= 0, as in every call the program makes.             *)
(***************************************************************************)
\* The box of the centre's own cell, whatever the radius.
RadiusBoxOfCentre(pos, radius) ==
    [min |-> <<Max(pos.coord.x, 0), Max(pos.coord.y, 0)>>,
     max |-> <<Min(pos.coord.x, GRID_DIM - 1), Min(pos.coord.y, GRID_DIM - 1)>>]

RadiusBox(pos, radius) ==
    LET radius_offset == [x |-> radius, y |-> radius]
        min == PosSubOffset(pos, radius_offset)
        max == PosAddOffset(pos, radius_offset)
    IN  [min |-> <<Max(min.coord.x, 0), Max(min.coord.y, 0)>>,
         max |-> <<Min(max.coord.x, GRID_DIM - 1), Min(max.coord.y, GRID_DIM - 1)>>]

\* The filter with < in place of <=.
InRadiusStrict(trs, pos, radius, slot) ==
    distance_sq(unwrap(trs[slot]).position, pos) < (radius * radius)

InRadius(trs, pos, radius, slot) ==
    distance_sq(unwrap(trs[slot]).position, pos) <= (radius * radius)

iter_trees_in_radius(trs, pos, radius) ==
    LET box == RadiusBox(pos, radius)
        Keep(slot) == InRadius(trs, pos, radius, slot)
    IN  SelectSeq(Collect(TreeRegionIterator_new(box.min, box.max), trs), Keep)

iter_trees_in_radius_mut(trs, pos, radius) ==
    LET box == RadiusBox(pos, radius)
        Keep(slot) == InRadius(trs, pos, radius, slot)
    IN  SelectSeq(CollectMut(TreeRegionIterator_new(box.min, box.max), trs), Keep)

(***************************************************************************)
(* game_state.rs: shading.                                                 *)
(***************************************************************************)
\* The loop without the `continue` for the tree that is being updated.
RECURSIVE ShadeFromNearWithSelf(_, _, _, _, _)
ShadeFromNearWithSelf(trs, tree_slot, near, i, shade_factor) ==
    IF i > Len(near) THEN shade_factor
    ELSE LET near_tree          == unwrap(trs[near[i]])
             tree_pos           == unwrap(trs[tree_slot]).position
             near_tree_shad_rad == shadow_radius(near_tree.species, near_tree.stage)
             dist               == distance(tree_pos, near_tree.position)
         IN  IF near_tree_shad_rad <= 0 \/ ~(dist <= near_tree_shad_rad)
             THEN ShadeFromNearWithSelf(trs, tree_slot, near, i + 1, shade_factor)
             ELSE ShadeFromNearWithSelf(trs, tree_slot, near, i + 1,
                                        ShadeMul(shade_factor, near_tree_shad_rad, dist))

RECURSIVE ShadeFromNear(_, _, _, _, _)
ShadeFromNear(trs, tree_slot, near, i, shade_factor) ==
    IF i > Len(near) THEN shade_factor
    ELSE LET near_tree_index    == near[i]
             near_tree          == unwrap(trs[near_tree_index])
             tree_pos           == unwrap(trs[tree_slot]).position
             near_tree_shad_rad == shadow_radius(near_tree.species, near_tree.stage)
             dist               == distance(tree_pos, near_tree.position)
         IN  IF near_tree_index = tree_slot
                \/ near_tree_shad_rad <= 0
                \/ ~(dist <= near_tree_shad_rad)
             THEN ShadeFromNear(trs, tree_slot, near, i + 1, shade_factor)
             ELSE ShadeFromNear(trs, tree_slot, near, i + 1,
                                ShadeMul(shade_factor, near_tree_shad_rad, dist))

\* The value set_shade_from_surrounding_trees stores in the slot's tree.
ComputedShade(trs, tree_slot) ==
    LET tree_pos == unwrap(trs[tree_slot]).position
        radius   == TILE_DIM
    IN  ShadeFromNear(trs, tree_slot,
                      iter_trees_in_radius(trs, tree_pos, radius), 1, ShadeOne)

set_shade_from_surrounding_trees(trs, tree_slot) ==
    [trs EXCEPT ![tree_slot] =
        Some([unwrap(@) EXCEPT !.shade_factor = ComputedShade(trs, tree_slot)])]

\* The loop without the `continue` for the tree whose stage has changed.
RECURSIVE UpdateNearWithSelf(_, _, _, _, _, _)
UpdateNearWithSelf(trs, tree_slot, old_shadow_radius, new_shadow_radius, near, i) ==
    IF i > Len(near) THEN trs
    ELSE LET near_tree_slot == near[i]
             near_tree      == unwrap(trs[near_tree_slot])
             tree_pos       == unwrap(trs[tree_slot]).position
             dist           == distance(tree_pos, near_tree.position)
             removed        == IF dist <= old_shadow_radius /\ old_shadow_radius > 0
                               THEN ShadeDiv(near_tree.shade_factor, old_shadow_radius, dist)
                               ELSE near_tree.shade_factor
             added          == IF dist <= new_shadow_radius /\ new_shadow_radius > 0
                               THEN ShadeMul(removed, new_shadow_radius, dist)
                               ELSE removed
         IN  UpdateNearWithSelf([trs EXCEPT ![near_tree_slot] =
                                    Some([near_tree EXCEPT !.shade_factor = added])],
                                tree_slot, old_shadow_radius, new_shadow_radius, near, i + 1)

RECURSIVE UpdateNear(_, _, _, _, _, _)
UpdateNear(trs, tree_slot, old_shadow_radius, new_shadow_radius, near, i) ==
    IF i > Len(near) THEN trs
    ELSE LET near_tree_slot == near[i]
             near_tree      == unwrap(trs[near_tree_slot])
             tree_pos       == unwrap(trs[tree_slot]).position
             dist           == distance(tree_pos, near_tree.position)
             removed        == IF dist <= old_shadow_radius /\ old_shadow_radius > 0
                               THEN ShadeDiv(near_tree.shade_factor, old_shadow_radius, dist)
                               ELSE near_tree.shade_factor
             added          == IF dist <= new_shadow_radius /\ new_shadow_radius > 0
                               THEN ShadeMul(removed, new_shadow_radius, dist)
                               ELSE removed
         IN  IF near_tree_slot = tree_slot
             THEN UpdateNear(trs, tree_slot, old_shadow_radius,
                             new_shadow_radius, near, i + 1)
             ELSE UpdateNear([trs EXCEPT ![near_tree_slot] =
                                 Some([near_tree EXCEPT !.shade_factor = added])],
                             tree_slot, old_shadow_radius,
                             new_shadow_radius, near, i + 1)

update_shade_for_surrounding_trees(trs, tree_slot, previous_stage) ==
    LET t_ref             == unwrap(trs[tree_slot])
        old_shadow_radius == shadow_radius(t_ref.species, previous_stage)
        new_shadow_radius == shadow_radius(t_ref.species, t_ref.stage)
        max_shadow_radius == Max(old_shadow_radius, new_shadow_radius)
    IN  UpdateNear(trs, tree_slot, old_shadow_radius, new_shadow_radius,
                   iter_trees_in_radius_mut(trs, t_ref.position, max_shadow_radius), 1)

(***************************************************************************)
(* game_state.rs: the store.  gs is the record of the three store fields.  *)
(***************************************************************************)
\* The number of trees in the cell, found by looking at its slots.
CountOccupied(trs, tile) ==
    Cardinality({t \in 0 .. (NUM_TREES_PER_TILE - 1) : is_some(trs[tree_slot_index(tile, t)])})

\* plant_tree that takes the slot after the cell's trees, not slot count.
plant_tree_after_trees(gs, pos, species) ==
    LET tile              == tile_index(pos.coord.x, pos.coord.y)
        num_trees_on_tile == gs.per_tile_tree_count[tile]
        slot              == tree_slot_index(tile, CountOccupied(gs.trees, tile))
        planted           == [gs.trees EXCEPT ![slot] = Some(TreeNew(species, pos))]
    IN  IF num_trees_on_tile < NUM_TREES_PER_TILE
        THEN [trees               |-> set_shade_from_surrounding_trees(planted, slot),
              per_tile_tree_count |-> [gs.per_tile_tree_count EXCEPT ![tile] = @ + 1],
              count_trees         |-> gs.count_trees + 1]
        ELSE gs

\* plant_tree that replaces the last tree of a full cell.
plant_tree_replace_last(gs, pos, species) ==
    LET tile              == tile_index(pos.coord.x, pos.coord.y)
        num_trees_on_tile == Min(gs.per_tile_tree_count[tile], NUM_TREES_PER_TILE - 1)
        slot              == tree_slot_index(tile, num_trees_on_tile)
        planted           == [gs.trees EXCEPT ![slot] = Some(TreeNew(species, pos))]
    IN  [trees               |-> set_shade_from_surrounding_trees(planted, slot),
         per_tile_tree_count |-> [gs.per_tile_tree_count EXCEPT ![tile] = num_trees_on_tile + 1],
         count_trees         |-> gs.count_trees + 1]

plant_tree(gs, pos, species) ==
    LET tile              == tile_index(pos.coord.x, pos.coord.y)
        num_trees_on_tile == gs.per_tile_tree_count[tile]
        slot              == tree_slot_index(tile, num_trees_on_tile)
        planted           == [gs.trees EXCEPT ![slot] = Some(TreeNew(species, pos))]
    IN  IF num_trees_on_tile < NUM_TREES_PER_TILE
        THEN [trees               |-> set_shade_from_surrounding_trees(planted, slot),
              per_tile_tree_count |-> [gs.per_tile_tree_count EXCEPT ![tile] = @ + 1],
              count_trees         |-> gs.count_trees + 1]
        ELSE gs

\* delete_tree that takes the tree off the cell's count at once.
delete_tree_and_count(gs, tree_slot) ==
    [gs EXCEPT !.trees[tree_slot] = None,
               !.per_tile_tree_count[tree_slot \div NUM_TREES_PER_TILE] = Max(@ - 1, 0)]

delete_tree(gs, tree_slot) ==
    [gs EXCEPT !.trees[tree_slot] = None]

\* kill_tree that makes the Snag without a growth_target.
kill_tree_no_target(gs, tree_slot) ==
    LET tree == unwrap(gs.trees[tree_slot])
    IN  CASE tree.stage \in {"Sprout", "Seedling"} -> delete_tree(gs, tree_slot)
          [] tree.stage \in {"Sapling", "Mature", "Old", "Decline"} ->
                [gs EXCEPT !.trees[tree_slot] =
                    Some([tree EXCEPT !.stage = "Snag", !.growth_target = None])]
          [] OTHER -> gs

\* kill_tree that makes a Snag of a Sprout or Seedling as well.
kill_tree_snag_always(gs, tree_slot) ==
    LET tree == unwrap(gs.trees[tree_slot])
    IN  IF tree.stage \in {"Snag", "Stump"} THEN gs
        ELSE [gs EXCEPT !.trees[tree_slot] =
                 Some([tree EXCEPT !.stage = "Snag",
                                   !.growth_target = growth_required(tree.species, "Snag")])]

kill_tree(gs, tree_slot) ==
    LET tree == unwrap(gs.trees[tree_slot])
    IN  CASE tree.stage \in {"Sprout", "Seedling"} -> delete_tree(gs, tree_slot)
          [] tree.stage \in {"Sapling", "Mature", "Old", "Decline"} ->
                [gs EXCEPT !.trees[tree_slot] =
                    Some([tree EXCEPT !.stage = "Snag",
                                      !.growth_target = growth_required(tree.species, "Snag")])]
          [] OTHER -> gs

\* The loop of pack_trees copying a tree forward without emptying its old slot.
\* A loop that fills a hole with the last tree of the cell.
RECURSIVE PackLoopSwapLast(_, _, _, _)
PackLoopSwapLast(tree_slots, count, read_index, write_index) ==
    IF write_index < count /\ read_index < NUM_TREES_PER_TILE
    THEN LET later   == {h \in (write_index + 1) .. (NUM_TREES_PER_TILE - 1) :
                            is_some(tree_slots[h])}
             last    == CHOOSE h \in later : \A g \in later : g <= h
             swapped ==
                 IF ~is_some(tree_slots[write_index]) /\ later # {}
                 THEN [tree_slots EXCEPT ![last] = tree_slots[write_index],
                                         ![write_index] = tree_slots[last]]
                 ELSE tree_slots
         IN  PackLoopSwapLast(swapped, count, read_index + 1,
                              IF is_some(swapped[write_index]) THEN write_index + 1
                                                               ELSE write_index)
    ELSE [tree_slots |-> tree_slots, write_index |-> write_index]

RECURSIVE PackLoopCopy(_, _, _, _)
PackLoopCopy(tree_slots, count, read_index, write_index) ==
    IF write_index < count /\ read_index < NUM_TREES_PER_TILE
    THEN LET copied ==
                 IF read_index # write_index /\ is_some(tree_slots[read_index])
                 THEN [tree_slots EXCEPT ![write_index] = tree_slots[read_index]]
                 ELSE tree_slots
         IN  PackLoopCopy(copied, count, read_index + 1,
                          IF is_some(copied[write_index]) THEN write_index + 1
                                                          ELSE write_index)
    ELSE [tree_slots |-> tree_slots, write_index |-> write_index]

\* The while loop of pack_trees on the K slots of one tile (a sequence, from 0).
RECURSIVE PackLoop(_, _, _, _)
PackLoop(tree_slots, count, read_index, write_index) ==
    IF write_index < count /\ read_index < NUM_TREES_PER_TILE
    THEN LET swapped ==
                 IF read_index # write_index /\ is_some(tree_slots[read_index])
                 THEN [tree_slots EXCEPT ![read_index] = tree_slots[write_index],
                                         ![write_index] = tree_slots[read_index]]
                 ELSE tree_slots
         IN  PackLoop(swapped, count, read_index + 1,
                      IF is_some(swapped[write_index]) THEN write_index + 1
                                                       ELSE write_index)
    ELSE [tree_slots |-> tree_slots, write_index |-> write_index]

\* pack_trees that closes the holes but takes one off the recorded count,
\* whatever the number of slots that were emptied.
pack_trees_one_less(gs, tile) ==
    LET tree_slots == [t \in 0 .. (NUM_TREES_PER_TILE - 1) |->
                          gs.trees[tree_slot_index(tile, t)]]
        packed     == PackLoop(tree_slots, gs.per_tile_tree_count[tile], 0, 0)
    IN  [gs EXCEPT !.trees = [s \in Slots |->
                                 IF s \div NUM_TREES_PER_TILE = tile
                                 THEN packed.tree_slots[s % NUM_TREES_PER_TILE]
                                 ELSE gs.trees[s]],
                   !.per_tile_tree_count[tile] = Max(@ - 1, 0)]

\* pack_trees that closes the holes and leaves the recorded count as it was.
pack_trees_keep_count(gs, tile) ==
    LET tree_slots == [t \in 0 .. (NUM_TREES_PER_TILE - 1) |->
                          gs.trees[tree_slot_index(tile, t)]]
        packed     == PackLoop(tree_slots, gs.per_tile_tree_count[tile], 0, 0)
    IN  [gs EXCEPT !.trees = [s \in Slots |->
                                 IF s \div NUM_TREES_PER_TILE = tile
                                 THEN packed.tree_slots[s % NUM_TREES_PER_TILE]
                                 ELSE gs.trees[s]]]

pack_trees(gs, tile) ==
    LET count_trees_on_tile == gs.per_tile_tree_count[tile]
        tree_slots == [t \in 0 .. (NUM_TREES_PER_TILE - 1) |->
                          gs.trees[tree_slot_index(tile, t)]]
        packed     == PackLoop(tree_slots, count_trees_on_tile, 0, 0)
    IN  [gs EXCEPT !.trees = [s \in Slots |->
                                 IF s \div NUM_TREES_PER_TILE = tile
                                 THEN packed.tree_slots[s % NUM_TREES_PER_TILE]
                                 ELSE gs.trees[s]],
                   !.per_tile_tree_count[tile] = packed.write_index]

(***************************************************************************)
(* Inputs and random draws, drawn from small sets.                         *)
(***************************************************************************)
MaxTicks == 8
MaxSeeds == 2

SpeciesChoices == {"Ash", "Fir"}

AllSpecies == {"Ash", "Fir", "CottonWood"}

\* Offsets of the initial trees inside their tile (gen_range(0.0..1.0)).
InitOffsets == {[x |-> 0, y |-> 0], [x |-> 4, y |-> 0]}

\* input.dt, in seconds.  update() takes any duration; the step is long, so
\* that a tree passes through its stages within MaxTicks updates.
DtChoices == {200 * ONE}

\* radius * (cos angle, sin angle) with radius within seed_radius().
SeedOffsets(species) ==
    CASE species = "Ash"        -> {[x |-> 0, y |-> 20], [x |-> 0 - 20, y |-> 0]}
      [] species = "Fir"        -> {[x |-> 6, y |-> 0], [x |-> 0, y |-> 0 - 20]}
      [] species = "CottonWood" -> {[x |-> 20, y |-> 0]}

\* Redrawn seed timers, within average - variation .. average + variation.
\* seed_success_rate(), in thousandths of a second.
seed_success_rate(species) ==
    CASE species = "Ash"        -> [average |-> 4 * ONE,  variation |-> ONE]
      [] species = "Fir"        -> [average |-> 3 * ONE,  variation |-> ONE]
      [] species = "CottonWood" -> [average |-> 16 * ONE, variation |-> 3 * ONE]

\* A redraw from 0 ..= average + variation.
SeedTimersFromZero(species) ==
    {0, seed_success_rate(species).average + seed_success_rate(species).variation}

\* gen_range(min..=max): its two ends and its middle.
SeedTimersInRange(species) ==
    {seed_success_rate(species).average - seed_success_rate(species).variation,
     seed_success_rate(species).average,
     seed_success_rate(species).average + seed_success_rate(species).variation}

SeedTimers(species) ==
    CASE species = "Ash"        -> {4 * ONE}
      [] species = "Fir"        -> {3 * ONE}
      [] species = "CottonWood" -> {16 * ONE}

(***************************************************************************)
(* The state: the fields of GameState, and the position of update().       *)
(***************************************************************************)
VARIABLES
    trees, per_tile_tree_count, count_trees,   \* the tree store
    tiles,                                     \* (GroundCover, SoilType) per tile
    tile_light_amt,
    new_grass_state, grass_x, grass_y,         \* update_grass' locals
    paused,
    pc,                \* "idle", or the phase of update_trees being run
    dt_s,              \* update_trees' argument
    scan_tile, scan_tree,                      \* tile_index, tree_index of the scan
    trial,             \* the seeding loop's counter
    tree_events,       \* the events pushed so far (count_events is its length)
    event_index,       \* the apply loop's index
    tiles_to_repack,
    ticks,             \* update() calls that were not paused, so far
    seeds,             \* seeding trials that succeeded, so far
    arg, ret           \* the argument and the result of a single call

vars == <<trees, per_tile_tree_count, count_trees, tiles, tile_light_amt,
          new_grass_state, grass_x, grass_y, paused, pc, dt_s,
          scan_tile, scan_tree, trial, tree_events, event_index,
          tiles_to_repack, ticks, seeds, arg, ret>>

call == <<arg, ret>>

\* What a single call of a store operation or of an iterator leaves alone.
tick == <<tiles, tile_light_amt, new_grass_state, grass_x, grass_y, paused,
          dt_s, scan_tile, scan_tree, trial, tree_events, event_index,
          tiles_to_repack, ticks, seeds>>

grass == <<tiles, tile_light_amt, new_grass_state, grass_x, grass_y>>

store == [trees |-> trees, per_tile_tree_count |-> per_tile_tree_count,
          count_trees |-> count_trees]

SetStore(gs) ==
    /\ trees' = gs.trees
    /\ per_tile_tree_count' = gs.per_tile_tree_count
    /\ count_trees' = gs.count_trees

MAX_NUM_EVENTS == GRID_SIZE * NUM_TREES_PER_TILE

\* push_event that, on a full buffer, puts the event in the place of the last one.
push_event_over_last(events, e) ==
    IF Len(events) < MAX_NUM_EVENTS THEN Append(events, e)
    ELSE [events EXCEPT ![Len(events)] = e]

push_event(events, e) ==
    IF Len(events) < MAX_NUM_EVENTS THEN Append(events, e) ELSE events

(***************************************************************************)
(* GameState::new()                                                        *)
(***************************************************************************)
EmptyStore ==
    [trees |-> [s \in Slots |-> None],
     per_tile_tree_count |-> [t \in Tiles |-> 0],
     count_trees |-> 0]

\* The positions pushed by one round of the plant_locations loop.
InitLocations(row) ==
    {[coord |-> [x |-> x, y |-> row], offset |-> off] :
        x \in 0 .. (GRID_DIM - 1), off \in InitOffsets}

\* The stores after the first n rounds (two plant_tree calls each).
RECURSIVE NewStores(_)
NewStores(n) ==
    IF n = 0 THEN {EmptyStore}
    ELSE {plant_tree(plant_tree(gs, p1, s1), p2, s2) :
            gs \in NewStores(n - 1),
            p1 \in InitLocations(GRID_DIM \div 3),
            p2 \in InitLocations((GRID_DIM \div 3) * 2),
            s1 \in SpeciesChoices, s2 \in SpeciesChoices}

InitTiles ==
    [t \in Tiles |-> [cover |-> "Grass",
                      soil  |-> IF t < GRID_SIZE \div 2 THEN "Stony" ELSE "Normal"]]

StoreIs(gs) ==
    /\ trees = gs.trees
    /\ per_tile_tree_count = gs.per_tile_tree_count
    /\ count_trees = gs.count_trees

\* The fields new() sets besides the store, and update()'s locals at rest.
AtRest ==
    /\ tiles = InitTiles
    /\ tile_light_amt = [t \in Tiles |-> 0]
    /\ new_grass_state = InitTiles
    /\ grass_x = 0
    /\ grass_y = 0
    /\ paused = FALSE
    /\ dt_s = 0
    /\ scan_tile = 0
    /\ scan_tree = 0
    /\ trial = 0
    /\ tree_events = <<>>
    /\ event_index = 0
    /\ tiles_to_repack = {}
    /\ ticks = 0
    /\ seeds = 0

Init ==
    /\ \E gs \in NewStores(NUM_INITIAL_TREES) : StoreIs(gs)
    /\ AtRest
    /\ pc = "idle"
    /\ arg = None
    /\ ret = None

(***************************************************************************)
(* update() and update_trees()                                             *)
(***************************************************************************)
\* From (tile, tree), the first scan position that holds a tree; the tile
\* GRID_SIZE when the scan is over.
RECURSIVE ScanFrom(_, _, _)
ScanFrom(counts, tile, tree) ==
    IF tile >= GRID_SIZE THEN [tile |-> GRID_SIZE, tree |-> 0]
    ELSE IF tree < counts[tile] THEN [tile |-> tile, tree |-> tree]
         ELSE ScanFrom(counts, tile + 1, 0)

\* Leave the current tree: on to the next one, or to the apply phase.
ScanOn ==
    LET next == ScanFrom(per_tile_tree_count, scan_tile, scan_tree + 1)
    IN  /\ scan_tile' = next.tile
        /\ scan_tree' = next.tree
        /\ trial' = 0
        /\ pc' = IF next.tile >= GRID_SIZE THEN "apply" ELSE "scan"

\* update() without the `if self.paused { return; }`.
UpdateThroughPause(pause, dt) ==
    /\ pc = "idle"
    /\ ticks < MaxTicks
    /\ ticks' = ticks + 1
    /\ paused' = pause
    /\ LET first == ScanFrom(per_tile_tree_count, 0, 0)
       IN  /\ dt_s' = dt
           /\ scan_tile' = first.tile
           /\ scan_tree' = first.tree
           /\ pc' = IF first.tile >= GRID_SIZE THEN "apply" ELSE "scan"
    /\ tree_events' = <<>>
    /\ event_index' = 0
    /\ tiles_to_repack' = {}
    /\ trial' = 0
    /\ UNCHANGED <<trees, per_tile_tree_count, count_trees, seeds, grass, call>>

Update(pause, dt) ==
    /\ pc = "idle"
    /\ ticks < MaxTicks
    /\ ticks' = IF pause THEN ticks ELSE ticks + 1
    /\ paused' = pause
    /\ IF pause
       THEN UNCHANGED <<pc, dt_s, scan_tile, scan_tree>>
       ELSE LET first == ScanFrom(per_tile_tree_count, 0, 0)
            IN  /\ dt_s' = dt
                /\ scan_tile' = first.tile
                /\ scan_tree' = first.tree
                /\ pc' = IF first.tile >= GRID_SIZE THEN "apply" ELSE "scan"
    /\ tree_events' = <<>>
    /\ event_index' = 0
    /\ tiles_to_repack' = {}
    /\ trial' = 0
    /\ UNCHANGED <<trees, per_tile_tree_count, count_trees, seeds, grass, call>>

soil_multiplier(soil_type, species) ==
    IF soil_type = soil_preference(species) THEN ONE ELSE (4 * ONE) \div 10

\* The multiplier taken from shade and soil for dead trees as well.
growth_multiplier_of_any(tree, soil_type) ==
    FMul(ONE, FMul(Value(tree.shade_factor), soil_multiplier(soil_type, tree.species)))

growth_multiplier(tree, soil_type) ==
    IF is_alive(tree)
    THEN FMul(ONE, FMul(Value(tree.shade_factor), soil_multiplier(soil_type, tree.species)))
    ELSE ONE

KILL_THRESHOLD == (5 * ONE) \div 100

\* The tree at the scan position after grow(), and the store after the shade update.
GrownTrees(trs, slot_index, soil_type) ==
    LET tree           == unwrap(trs[slot_index])
        old_grow_stage == tree.stage
        grown          == grow(tree, FMul(dt_s, growth_multiplier(tree, soil_type)))
        trs1           == [trs EXCEPT ![slot_index] = Some(grown)]
    IN  IF old_grow_stage # grown.stage
        THEN update_shade_for_surrounding_trees(trs1, slot_index, old_grow_stage)
        ELSE trs1

\* One iteration of the scan loop, up to the seeding loop.
\* The scan without the `continue` after the Kill: the tree is grown as well.
ScanTreeGrowsKilled ==
    /\ pc = "scan"
    /\ LET slot_index == tree_slot_index(scan_tile, scan_tree)
           tree       == unwrap(trees[slot_index])
           soil_type  == tiles[scan_tile].soil
           killed     == FLe(growth_multiplier(tree, soil_type), KILL_THRESHOLD)
           events     == IF killed
                         THEN push_event(tree_events,
                                  [type |-> "Kill", tree_slot_index |-> slot_index])
                         ELSE tree_events
           trs        == GrownTrees(trees, slot_index, soil_type)
           new        == unwrap(trs[slot_index])
       IN  /\ trees' = trs
           /\ CASE new.stage \in {"Mature", "Old", "Decline"} ->
                     IF FLe(new.seed_timer, 0)
                     THEN /\ pc' = "seed"
                          /\ trial' = 0
                          /\ tree_events' = events
                          /\ UNCHANGED <<scan_tile, scan_tree>>
                     ELSE ScanOn /\ tree_events' = events
                [] new.stage = "Stump" ->
                     /\ \E roll \in BOOLEAN :
                           tree_events' =
                               IF roll
                               THEN push_event(events,
                                        [type |-> "Delete", tree_slot_index |-> slot_index])
                               ELSE events
                     /\ ScanOn
                [] OTHER -> ScanOn /\ tree_events' = events
    /\ UNCHANGED <<per_tile_tree_count, count_trees, paused, dt_s,
                   event_index, tiles_to_repack, ticks, seeds, grass, call>>

ScanTree ==
    /\ pc = "scan"
    /\ LET slot_index == tree_slot_index(scan_tile, scan_tree)
           tree       == unwrap(trees[slot_index])
           soil_type  == tiles[scan_tile].soil
       IN  IF FLe(growth_multiplier(tree, soil_type), KILL_THRESHOLD)
           THEN /\ tree_events' = push_event(tree_events,
                        [type |-> "Kill", tree_slot_index |-> slot_index])
                /\ ScanOn
                /\ UNCHANGED trees
           ELSE LET trs == GrownTrees(trees, slot_index, soil_type)
                    new == unwrap(trs[slot_index])
                IN  /\ trees' = trs
                    /\ CASE new.stage \in {"Mature", "Old", "Decline"} ->
                              IF FLe(new.seed_timer, 0)
                              THEN /\ pc' = "seed"
                                   /\ trial' = 0
                                   /\ UNCHANGED <<scan_tile, scan_tree, tree_events>>
                              ELSE ScanOn /\ UNCHANGED tree_events
                         [] new.stage = "Stump" ->
                              /\ \E roll \in BOOLEAN :
                                    tree_events' =
                                        IF roll
                                        THEN push_event(tree_events,
                                                 [type |-> "Delete", tree_slot_index |-> slot_index])
                                        ELSE tree_events
                              /\ ScanOn
                         [] OTHER -> ScanOn /\ UNCHANGED tree_events
    /\ UNCHANGED <<per_tile_tree_count, count_trees, paused, dt_s,
                   event_index, tiles_to_repack, ticks, seeds, grass, call>>

\* The bounds check with <= GRID_DIM on the upper side.
InGridOrJustOutside(pos) ==
    /\ pos.coord.x <= GRID_DIM /\ pos.coord.x >= 0
    /\ pos.coord.y <= GRID_DIM /\ pos.coord.y >= 0

InGrid(pos) ==
    /\ pos.coord.x < GRID_DIM /\ pos.coord.x >= 0
    /\ pos.coord.y < GRID_DIM /\ pos.coord.y >= 0

\* One pass of the `for _ in 0..3` seeding loop of the tree at the scan
\* position; the redrawn timer comes from timers[species], and no more than
\* max_seeds trials succeed in a behaviour.
SeedStep(timers, max_seeds) ==
    /\ pc = "seed"
    /\ LET slot_index == tree_slot_index(scan_tile, scan_tree)
           tree       == unwrap(trees[slot_index])
       IN  \E success \in {FALSE} \cup {seeds < max_seeds} :
              IF success
              THEN \E off \in SeedOffsets(tree.species), timer \in timers[tree.species] :
                      LET plant_position == PosAddOffset(tree.position, off)
                      IN  /\ tree_events' =
                                IF InGrid(plant_position)
                                THEN push_event(tree_events,
                                         [type |-> "Plant", pos |-> plant_position,
                                          species |-> tree.species])
                                ELSE tree_events
                          /\ trees' = [trees EXCEPT ![slot_index] =
                                          Some([tree EXCEPT !.seed_timer = timer])]
                          /\ seeds' = seeds + 1
              ELSE UNCHANGED <<trees, tree_events, seeds>>
    /\ IF trial + 1 < 3
       THEN trial' = trial + 1 /\ UNCHANGED <<pc, scan_tile, scan_tree>>
       ELSE ScanOn
    /\ UNCHANGED <<per_tile_tree_count, count_trees, paused, dt_s,
                   event_index, tiles_to_repack, ticks, grass, call>>

SeedTrial == SeedStep([species \in AllSpecies |-> SeedTimers(species)], MaxSeeds)

\* The store after one event.
\* An event applied with its cell compacted at once.
ApplyOnePacking(gs, event) ==
    CASE event.type = "Plant"  -> plant_tree(gs, event.pos, event.species)
      [] event.type = "Kill"   ->
            pack_trees(kill_tree(gs, event.tree_slot_index),
                       event.tree_slot_index \div NUM_TREES_PER_TILE)
      [] event.type = "Delete" ->
            pack_trees(delete_tree(gs, event.tree_slot_index),
                       event.tree_slot_index \div NUM_TREES_PER_TILE)

ApplyOne(gs, event) ==
    CASE event.type = "Plant"  -> plant_tree(gs, event.pos, event.species)
      [] event.type = "Kill"   -> kill_tree(gs, event.tree_slot_index)
      [] event.type = "Delete" -> delete_tree(gs, event.tree_slot_index)

\* One iteration of the apply loop; after the last event, on to the repack loop.
ApplyEvent ==
    /\ pc = "apply"
    /\ IF event_index < Len(tree_events)
       THEN LET event == tree_events[event_index + 1]
            IN  /\ SetStore(ApplyOne(store, event))
                /\ tiles_to_repack' =
                      IF event.type \in {"Kill", "Delete"}
                      THEN tiles_to_repack \cup {event.tree_slot_index \div NUM_TREES_PER_TILE}
                      ELSE tiles_to_repack
                /\ event_index' = event_index + 1
                /\ pc' = "apply"
       ELSE /\ pc' = "repack"
            /\ UNCHANGED <<trees, per_tile_tree_count, count_trees,
                           tiles_to_repack, event_index>>
    /\ UNCHANGED <<paused, dt_s, scan_tile, scan_tree, trial,
                   tree_events, ticks, seeds, grass, call>>

\* One iteration of the repack loop (a HashSet: any order); then update() is over.
Repack ==
    /\ pc = "repack"
    /\ IF tiles_to_repack # {}
       THEN \E tile \in tiles_to_repack :
               /\ SetStore(pack_trees(store, tile))
               /\ tiles_to_repack' = tiles_to_repack \ {tile}
               /\ pc' = "repack"
               /\ UNCHANGED grass
       ELSE /\ pc' = "grass"
            /\ new_grass_state' = tiles
            /\ grass_x' = 0
            /\ grass_y' = 0
            /\ UNCHANGED <<trees, per_tile_tree_count, count_trees, tiles_to_repack,
                           tiles, tile_light_amt>>
    /\ UNCHANGED <<paused, dt_s, scan_tile, scan_tree, trial,
                   tree_events, event_index, ticks, seeds, call>>

(***************************************************************************)
(* update_grass()                                                          *)
(***************************************************************************)
\* grow_roll and growth_chance in units of 0.00001.  GrassRolls holds, for
\* every entry p of the table, the sample 1 - p and a sample above it.
ROLL_ONE == ONE * 100
GrassRolls == {0, ROLL_ONE - 40, ROLL_ONE - 10, ROLL_ONE - 5, ROLL_ONE - 1, ROLL_ONE}

\* A table that gives a cell without Grass neighbours the smallest chance.
growth_chance_for_none(grassy_neighbor_count) ==
    CASE grassy_neighbor_count \in 0 .. 1 -> 1
      [] grassy_neighbor_count = 2 -> 5
      [] grassy_neighbor_count \in 3 .. 5 -> 10
      [] grassy_neighbor_count \in 6 .. 8 -> 40
      [] OTHER -> 0

growth_chance(grassy_neighbor_count) ==
    CASE grassy_neighbor_count = 1 -> 1
      [] grassy_neighbor_count = 2 -> 5
      [] grassy_neighbor_count \in 3 .. 5 -> 10
      [] grassy_neighbor_count \in 6 .. 8 -> 40
      [] OTHER -> 0

\* The fold with an Old tree letting all the light through.
RECURSIVE LightFoldOldClear(_, _, _, _)
LightFoldOldClear(trs, begin, end, acc) ==
    IF begin >= end THEN acc
    ELSE LET tree == unwrap(trs[begin])
         IN  LightFoldOldClear(trs, begin + 1, end,
                 CASE tree.stage = "Seedling" -> FMul(acc, ONE - (ONE \div 100))
                   [] tree.stage = "Sapling"  -> FMul(acc, ONE - (ONE \div 10))
                   [] tree.stage = "Mature"   -> FMul(acc, ONE - (ONE \div 2))
                   [] OTHER -> acc)

RECURSIVE LightFold(_, _, _, _)
LightFold(trs, begin, end, acc) ==
    IF begin >= end THEN acc
    ELSE LET tree == unwrap(trs[begin])
         IN  LightFold(trs, begin + 1, end,
                 CASE tree.stage = "Seedling" -> FMul(acc, ONE - (ONE \div 100))
                   [] tree.stage = "Sapling"  -> FMul(acc, ONE - (ONE \div 10))
                   [] tree.stage \in {"Mature", "Old"} -> FMul(acc, ONE - (ONE \div 2))
                   [] OTHER -> acc)

\* The fold over iter_trees_on_tile_unchecked(tile).
light_amt(trs, counts, tile) ==
    LightFold(trs, tree_slot_index(tile, 0), tree_slot_index(tile, 0) + counts[tile], ONE)

\* The neighbour loops of update_grass on a grid of dim x dim tiles (dim is
\* GRID_DIM; the pass is also run on its own, on a grid of MaxGrassDim).
\* The count over the eight tiles around (x, y), the tile itself left out.
grassy_neighbor_count_around(dim, tls, x, y) ==
    Cardinality({n \in ((x - 1) .. (x + 1)) \X ((y - 1) .. (y + 1)) :
        /\ n # <<x, y>>
        /\ n[1] >= 0 /\ n[1] < dim
        /\ n[2] >= 0 /\ n[2] < dim
        /\ tls[n[1] + (n[2] * dim)].cover = "Grass"})

\* for neighbor_x in (x-1)..=(x+1) { for neighbor_y in (y-1)..=(y+1) { .. } }
RECURSIVE NeighborLoop(_, _, _, _, _, _, _)
NeighborLoop(dim, tls, x, y, neighbor_x, neighbor_y, count) ==
    IF neighbor_x > x + 1 THEN count
    ELSE IF neighbor_y > y + 1
         THEN NeighborLoop(dim, tls, x, y, neighbor_x + 1, y - 1, count)
         ELSE NeighborLoop(dim, tls, x, y, neighbor_x, neighbor_y + 1,
                  IF neighbor_x = neighbor_y THEN count
                  ELSE IF /\ neighbor_x >= 0 /\ neighbor_x < dim
                          /\ neighbor_y >= 0 /\ neighbor_y < dim
                          /\ tls[neighbor_x + (neighbor_y * dim)].cover = "Grass"
                       THEN count + 1
                       ELSE count)

grassy_neighbor_count(dim, tls, x, y) ==
    NeighborLoop(dim, tls, x, y, x - 1, y - 1, 0)

LIGHT_THRESHOLD == ONE \div 4

\* The grid a cell's own cover and its neighbours' covers are read from:
\* self.tiles, which is not written before the loops are over.
\* Reading the grid that is being written.
GridReadNew(tls, new) == new

GridRead(tls, new) == tls

\* The cover new_grass_state holds for the tile after its iteration.
\* The light test with < in the place of <=.
GrassCoverBelow(light, cover, kept, grassy, grow_roll) ==
    IF light # NaN /\ light < LIGHT_THRESHOLD THEN "Dirt"
    ELSE IF cover = "Dirt" /\ grow_roll > ROLL_ONE - growth_chance(grassy)
         THEN "Grass"
         ELSE kept

\* Grass without a Grass neighbour turns to Dirt.
GrassCoverLonely(light, cover, kept, grassy, grow_roll) ==
    IF FLe(light, LIGHT_THRESHOLD) THEN "Dirt"
    ELSE IF cover = "Dirt"
         THEN (IF grow_roll > ROLL_ONE - growth_chance(grassy) THEN "Grass" ELSE kept)
         ELSE (IF grassy = 0 THEN "Dirt" ELSE kept)

\* The sample test with >= in the place of >.
GrassCoverAtChance(light, cover, kept, grassy, grow_roll) ==
    IF FLe(light, LIGHT_THRESHOLD) THEN "Dirt"
    ELSE IF cover = "Dirt" /\ grow_roll >= ROLL_ONE - growth_chance(grassy)
         THEN "Grass"
         ELSE kept

GrassCover(light, cover, kept, grassy, grow_roll) ==
    IF FLe(light, LIGHT_THRESHOLD) THEN "Dirt"
    ELSE IF cover = "Dirt" /\ grow_roll > ROLL_ONE - growth_chance(grassy)
         THEN "Grass"
         ELSE kept

\* One iteration of update_grass' loops (x outside, y inside) on a grid of
\* dim x dim tiles, the sample being drawn from rolls; the last iteration
\* stores the new grid, and update() is over.
GrassStep(dim, rolls) ==
    /\ pc = "grass"
    /\ LET tile  == grass_x + (grass_y * dim)
           light == light_amt(trees, per_tile_tree_count, tile)
           last  == grass_x = dim - 1 /\ grass_y = dim - 1
           read  == GridRead(tiles, new_grass_state)
       IN  /\ tile_light_amt' = [tile_light_amt EXCEPT ![tile] = light]
           /\ \E grow_roll \in rolls :
                 LET new == [new_grass_state EXCEPT ![tile].cover =
                                GrassCover(light, read[tile].cover, @,
                                    grassy_neighbor_count(dim, read, grass_x, grass_y),
                                    grow_roll)]
                 IN  /\ new_grass_state' = new
                     /\ tiles' = IF last THEN new ELSE tiles
           /\ IF grass_y + 1 < dim
              THEN grass_y' = grass_y + 1 /\ UNCHANGED grass_x
              ELSE grass_y' = 0 /\ grass_x' = IF last THEN 0 ELSE grass_x + 1
           /\ pc' = IF last THEN "idle" ELSE "grass"
    /\ UNCHANGED <<trees, per_tile_tree_count, count_trees, paused, dt_s,
                   scan_tile, scan_tree, trial, tree_events, event_index,
                   tiles_to_repack, ticks, seeds, call>>

GrassCell == GrassStep(GRID_DIM, GrassRolls)

Next ==
    \/ \E pause \in BOOLEAN, dt \in DtChoices : Update(pause, dt)
    \/ ScanTree
    \/ SeedTrial
    \/ ApplyEvent
    \/ Repack
    \/ GrassCell

Spec == Init /\ [][Next]_vars

\* Between update() calls.
Idle == pc = "idle"

\* The cell's occupied slots are exactly those below count, and count counts them.
PackedCell(trs, counts, tile) ==
    /\ \A t \in 0 .. (NUM_TREES_PER_TILE - 1) :
          is_some(trs[tree_slot_index(tile, t)]) <=> t < counts[tile]
    /\ counts[tile] = CountOccupied(trs, tile)

(***************************************************************************)
(* C1.  In the state new() produces and after every completed update(),    *)
(* every cell has its slots 0 .. count-1 occupied, its slots count .. K-1  *)
(* empty, and its recorded count equal to the number of occupied slots.    *)
(***************************************************************************)
C1_PackedFront ==
    Idle => \A tile \in Tiles : PackedCell(trees, per_tile_tree_count, tile)

\* An update() has ended in which a Kill or Delete event emptied a slot that
\* pack_trees then filled with a living tree from further back in the cell.
C1_Witness ==
    /\ Idle
    /\ ticks > 0
    /\ \E i \in 1 .. Len(tree_events) :
          /\ tree_events[i].type \in {"Kill", "Delete"}
          /\ is_some(trees[tree_events[i].tree_slot_index])
          /\ is_alive(unwrap(trees[tree_events[i].tree_slot_index]))

OccupiedSlots == {s \in Slots : is_some(trees[s])}

(***************************************************************************)
(* C8.  After every tick, every tree in the store has a shade_factor       *)
(* strictly greater than 0 and at most 1, wherever the trees stand (trees  *)
(* at the same position included).                                         *)
(***************************************************************************)
C8_ShadeInUnitRange ==
    (Idle /\ ticks > 0) =>
        \A s \in OccupiedSlots :
            /\ unwrap(trees[s]).shade_factor.kind = "fin"
            /\ FLe(Value(unwrap(trees[s]).shade_factor), ONE)

\* A tick has ended with a tree whose shade_factor is 0.0, NaN or infinite.
C8_Witness ==
    /\ Idle
    /\ ticks > 0
    /\ \E s \in OccupiedSlots : unwrap(trees[s]).shade_factor.kind # "fin"

(***************************************************************************)
(* C9.  After any sequence of ticks (growth stage changes, Kill events,    *)
(* deletions and plantings), every tree's stored shade_factor equals the   *)
(* value set_shade_from_surrounding_trees would compute for it from        *)
(* scratch from the current store.                                         *)
(***************************************************************************)
C9_ShadeFromScratch ==
    Idle =>
        \A s \in OccupiedSlots :
            LET stored == Value(unwrap(trees[s]).shade_factor)
            IN  stored # NaN /\ stored = Value(ComputedShade(trees, s))

\* A tick has ended in which a Kill event turned a tree into a Snag, and a
\* living tree within the shadow radius the Snag had before still carries
\* that shadow in its shade_factor.
C9_Witness ==
    /\ Idle
    /\ ticks > 0
    /\ \E i \in 1 .. Len(tree_events) :
          /\ tree_events[i].type = "Kill"
          /\ \E s \in OccupiedSlots, v \in OccupiedSlots :
                /\ s # v
                /\ unwrap(trees[v]).stage = "Snag"
                /\ is_alive(unwrap(trees[s]))
                /\ unwrap(trees[s]).shade_factor.kind = "fin"
                /\ unwrap(trees[s]).shade_factor # ComputedShade(trees, s)
                /\ \E k \in DOMAIN unwrap(trees[s]).shade_factor.f :
                      k[2] = distance(unwrap(trees[s]).position, unwrap(trees[v]).position)

(***************************************************************************)
(* Single calls of the store's operations: plant_tree and pack_trees on    *)
(* the cells the apply loop of update_trees can produce.                   *)
(***************************************************************************)
TileCoord(tile) == [x |-> tile % GRID_DIM, y |-> tile \div GRID_DIM]

\* Where the j-th tree planted on a tile stands.
CallPosition(tile, j) ==
    [coord |-> TileCoord(tile), offset |-> [x |-> (2 * j) % TILE_DIM, y |-> 0]]

\* n more plant_tree calls on the tile, the first of them the j-th.
RECURSIVE PlantMany(_, _, _, _)
PlantMany(gs, tile, j, n) ==
    IF n = 0 THEN gs
    ELSE PlantMany(plant_tree(gs, CallPosition(tile, j), "Ash"), tile, j + 1, n - 1)

\* delete_tree on every in-cell index of the set.
RECURSIVE DeleteMany(_, _, _)
DeleteMany(gs, tile, cleared) ==
    IF cleared = {} THEN gs
    ELSE LET t == CHOOSE t \in cleared : TRUE
         IN  DeleteMany(delete_tree(gs, tree_slot_index(tile, t)), tile, cleared \ {t})

\* The stores in which c trees were planted on the tile, some of them were
\* deleted and p more were planted; another tile holds one tree or none.
CellStores(tile) ==
    UNION {UNION {{PlantMany(DeleteMany(PlantMany(PlantMany(EmptyStore, (tile + 1) % GRID_SIZE, 0, o),
                                                  tile, 0, c),
                                        tile, cleared),
                             tile, c, p) :
                      p \in 0 .. (NUM_TREES_PER_TILE - c), o \in 0 .. 1} :
                  cleared \in SUBSET (0 .. (c - 1))} :
           c \in 0 .. NUM_TREES_PER_TILE}

CallPositions ==
    {[coord |-> TileCoord(tile), offset |-> [x |-> TILE_DIM \div 2, y |-> 0]] : tile \in Tiles}

InitStore ==
    /\ \E tile \in Tiles : \E gs \in CellStores(tile) : StoreIs(gs)
    /\ AtRest
    /\ pc = "call"
    /\ arg = None
    /\ ret = None

\* arg.gs is the store the call was made on.
PlantTree ==
    /\ pc = "call"
    /\ \E pos \in CallPositions, species \in SpeciesChoices :
          /\ arg' = [op |-> "plant_tree", pos |-> pos, species |-> species, gs |-> store]
          /\ SetStore(plant_tree(store, pos, species))
    /\ pc' = "planted"
    /\ UNCHANGED <<ret, tick>>

PackTrees ==
    /\ pc = "call"
    /\ \E tile \in Tiles :
          /\ arg' = [op |-> "pack_trees", tile |-> tile, gs |-> store]
          /\ SetStore(pack_trees(store, tile))
    /\ pc' = "packed"
    /\ UNCHANGED <<ret, tick>>

\* The same call once more; ret keeps the store the first call was made on.
PackTreesAgain ==
    /\ pc = "packed"
    /\ arg' = [arg EXCEPT !.gs = store]
    /\ ret' = arg.gs
    /\ SetStore(pack_trees(store, arg.tile))
    /\ pc' = "repacked"
    /\ UNCHANGED tick

NextStore ==
    \/ PlantTree
    \/ PackTrees
    \/ PackTreesAgain

SpecStore == InitStore /\ [][NextStore]_vars

PlantTile == tile_index(arg.pos.coord.x, arg.pos.coord.y)
PlantCount == arg.gs.per_tile_tree_count[PlantTile]

(***************************************************************************)
(* C2.  plant_tree on a cell whose recorded count c is below K writes a    *)
(* new tree (stage Sprout, growth 0, the given species and position) into  *)
(* in-cell slot c of that cell and raises that cell's count to c + 1; no   *)
(* other slot and no other cell's count is changed.                        *)
(***************************************************************************)
C2_PlantBelowK ==
    (pc = "planted" /\ PlantCount < NUM_TREES_PER_TILE) =>
        LET slot == tree_slot_index(PlantTile, PlantCount)
        IN  /\ is_some(trees[slot])
            /\ unwrap(trees[slot]).stage = "Sprout"
            /\ unwrap(trees[slot]).growth = 0
            /\ unwrap(trees[slot]).species = arg.species
            /\ unwrap(trees[slot]).position = arg.pos
            /\ per_tile_tree_count =
                  [arg.gs.per_tile_tree_count EXCEPT ![PlantTile] = PlantCount + 1]
            /\ \A s \in Slots \ {slot} : trees[s] = arg.gs.trees[s]

\* A tree was planted at slot 1 or higher of a cell that has an empty slot
\* below its count, while another cell holds a tree.
C2_Witness ==
    /\ pc = "planted"
    /\ PlantCount < NUM_TREES_PER_TILE
    /\ PlantCount > 0
    /\ \E t \in 0 .. (PlantCount - 1) : ~is_some(arg.gs.trees[tree_slot_index(PlantTile, t)])
    /\ \E tile \in Tiles \ {PlantTile} : per_tile_tree_count[tile] > 0

(***************************************************************************)
(* C3.  plant_tree on a cell whose count is already K leaves that cell's   *)
(* count, every slot of the store, the running total and every tree's      *)
(* shade_factor unchanged.                                                 *)
(***************************************************************************)
C3_PlantFullCell ==
    (pc = "planted" /\ PlantCount = NUM_TREES_PER_TILE) =>
        /\ per_tile_tree_count = arg.gs.per_tile_tree_count
        /\ trees = arg.gs.trees
        /\ count_trees = arg.gs.count_trees

\* plant_tree was called on a cell whose count is K.
C3_Witness ==
    /\ pc = "planted"
    /\ PlantCount = NUM_TREES_PER_TILE
    /\ CountOccupied(trees, PlantTile) = NUM_TREES_PER_TILE

\* The trees of a cell, as a set.
CellTrees(trs, tile) ==
    {trs[tree_slot_index(tile, t)] : t \in 0 .. (NUM_TREES_PER_TILE - 1)} \ {None}

(***************************************************************************)
(* C4.  pack_trees on a cell where any subset of the slots below the count *)
(* was cleared (and trees were possibly appended at slot count afterwards) *)
(* leaves the cell's trees contiguous from in-cell index 0 and the count   *)
(* equal to their number, and touches no other cell; a second call, or a   *)
(* call on a cell where nothing was cleared, changes nothing.              *)
(***************************************************************************)
C4_PackTrees ==
    /\ pc \in {"packed", "repacked"} =>
          /\ PackedCell(trees, per_tile_tree_count, arg.tile)
          /\ CellTrees(trees, arg.tile) = CellTrees(arg.gs.trees, arg.tile)
          /\ CountOccupied(trees, arg.tile) = CountOccupied(arg.gs.trees, arg.tile)
          /\ \A s \in Slots : s \div NUM_TREES_PER_TILE # arg.tile => trees[s] = arg.gs.trees[s]
          /\ \A tile \in Tiles \ {arg.tile} :
                per_tile_tree_count[tile] = arg.gs.per_tile_tree_count[tile]
          /\ count_trees = arg.gs.count_trees
    /\ (pc = "packed" /\ PackedCell(arg.gs.trees, arg.gs.per_tile_tree_count, arg.tile)) =>
          store = arg.gs
    /\ pc = "repacked" => store = arg.gs

\* pack_trees was called twice on a cell of K slots whose first slot had been
\* cleared and whose last slot holds a tree.
C4_Witness ==
    /\ pc = "repacked"
    /\ ~is_some(ret.trees[tree_slot_index(arg.tile, 0)])
    /\ is_some(ret.trees[tree_slot_index(arg.tile, NUM_TREES_PER_TILE - 1)])
    /\ ret.per_tile_tree_count[arg.tile] = NUM_TREES_PER_TILE
    /\ per_tile_tree_count[arg.tile] < NUM_TREES_PER_TILE

(***************************************************************************)
(* Single runs of the region iterators and of the radius queries, on       *)
(* stores whose cells may have empty slots below occupied ones (as between *)
(* the apply loop's delete_tree calls and pack_trees).                     *)
(***************************************************************************)
\* The in-cell indices that hold a tree, for the cells of a sample store.
CellPatterns ==
    {{}, {NUM_TREES_PER_TILE - 1}, {0, NUM_TREES_PER_TILE - 1}, 0 .. (NUM_TREES_PER_TILE - 1)}

\* Where the tree of in-cell index t stands in its tile.
SlotOffset(t) == [x |-> (t * (TILE_DIM \div 2)) % TILE_DIM,
                  y |-> (t * (TILE_DIM \div 4)) % TILE_DIM]

SampleStore(pattern) ==
    [trees |-> [s \in Slots |->
                   IF (s % NUM_TREES_PER_TILE) \in pattern[s \div NUM_TREES_PER_TILE]
                   THEN Some(TreeNew("Ash", [coord  |-> TileCoord(s \div NUM_TREES_PER_TILE),
                                             offset |-> SlotOffset(s % NUM_TREES_PER_TILE)]))
                   ELSE None],
     per_tile_tree_count |-> [tile \in Tiles |->
                   IF pattern[tile] = {} THEN 0 ELSE NUM_TREES_PER_TILE],
     count_trees |-> NUM_TREES_PER_TILE * Cardinality({tile \in Tiles : pattern[tile] # {}})]

SampleStores == {SampleStore(pattern) : pattern \in [Tiles -> CellPatterns]}

\* The inclusive cell boxes with min <= max and max < GRID_DIM.
Boxes ==
    {b \in [min : (0 .. (GRID_DIM - 1)) \X (0 .. (GRID_DIM - 1)),
            max : (0 .. (GRID_DIM - 1)) \X (0 .. (GRID_DIM - 1))] :
        b.min[1] <= b.max[1] /\ b.min[2] <= b.max[2]}

InitIter ==
    /\ \E gs \in SampleStores : StoreIs(gs)
    /\ AtRest
    /\ pc = "iter"
    /\ \E b \in Boxes, op \in {"TreeRegionIterator", "TreeRegionIteratorMut"} :
          /\ arg = [op |-> op, min |-> b.min, max |-> b.max]
          /\ ret = [it |-> TreeRegionIterator_new(b.min, b.max), items |-> <<>>, done |-> FALSE]

\* ret after one more next(): the item is appended; None ends the run.
Yielded(n) ==
    [it    |-> n.it,
     items |-> IF is_some(n.item) THEN Append(ret.items, unwrap(n.item)) ELSE ret.items,
     done  |-> ~is_some(n.item)]

IterNext ==
    /\ pc = "iter"
    /\ arg.op = "TreeRegionIterator"
    /\ ~ret.done
    /\ ret' = Yielded(TreeRegionIterator_next(ret.it, trees))
    /\ UNCHANGED <<trees, per_tile_tree_count, count_trees, pc, arg, tick>>

IterNextMut ==
    /\ pc = "iter"
    /\ arg.op = "TreeRegionIteratorMut"
    /\ ~ret.done
    /\ ret' = Yielded(TreeRegionIteratorMut_next(ret.it, trees))
    /\ UNCHANGED <<trees, per_tile_tree_count, count_trees, pc, arg, tick>>

NextIter ==
    \/ IterNext
    \/ IterNextMut

SpecIter == InitIter /\ [][NextIter]_vars

\* The slot's cell lies in the box.
InBox(s, min, max) ==
    LET c == TileCoord(s \div NUM_TREES_PER_TILE)
    IN  /\ min[1] <= c.x /\ c.x <= max[1]
        /\ min[2] <= c.y /\ c.y <= max[2]

\* Row-major order: y, then x, then the in-cell index.
RowMajorBefore(s1, s2) ==
    LET c1 == TileCoord(s1 \div NUM_TREES_PER_TILE)
        c2 == TileCoord(s2 \div NUM_TREES_PER_TILE)
    IN  \/ c1.y < c2.y
        \/ c1.y = c2.y /\ c1.x < c2.x
        \/ c1.y = c2.y /\ c1.x = c2.x
             /\ s1 % NUM_TREES_PER_TILE < s2 % NUM_TREES_PER_TILE

SeqRange(q) == {q[i] : i \in 1 .. Len(q)}

(***************************************************************************)
(* C5.  A TreeRegionIterator, and a TreeRegionIteratorMut, over an         *)
(* inclusive cell box with min <= max and max < D yields occupied slots of *)
(* the box only, by their global slot index, in row-major order (so none   *)
(* twice), and when it ends it has yielded every occupied slot of the box. *)
(***************************************************************************)
C5_RegionIterator ==
    pc = "iter" =>
        /\ \A i \in 1 .. Len(ret.items) :
              /\ ret.items[i] \in Slots
              /\ is_some(trees[ret.items[i]])
              /\ InBox(ret.items[i], arg.min, arg.max)
        /\ \A i \in 1 .. (Len(ret.items) - 1) : RowMajorBefore(ret.items[i], ret.items[i + 1])
        /\ ret.done =>
              SeqRange(ret.items) =
                  {s \in Slots : is_some(trees[s]) /\ InBox(s, arg.min, arg.max)}

\* A TreeRegionIteratorMut has ended over a box that does not start at cell
\* (0, 0) and is more than one cell wide, having passed over empty slots and
\* yielded trees of two cells while a cell outside the box holds trees.
C5_Witness ==
    /\ pc = "iter"
    /\ arg.op = "TreeRegionIteratorMut"
    /\ ret.done
    /\ arg.min[1] > 0 \/ arg.min[2] > 0
    /\ arg.min[1] < arg.max[1] \/ arg.min[2] < arg.max[2]
    /\ Len(ret.items) >= 3
    /\ \E s \in Slots : ~is_some(trees[s]) /\ InBox(s, arg.min, arg.max)
                          /\ \E i \in 1 .. Len(ret.items) : s < ret.items[i]
    /\ \E s \in Slots : is_some(trees[s]) /\ ~InBox(s, arg.min, arg.max)

(***************************************************************************)
(* Single calls of iter_trees_in_radius and iter_trees_in_radius_mut.      *)
(***************************************************************************)
\* Centres on the grid, at a corner of their tile.
Centres ==
    {[coord |-> TileCoord(tile), offset |-> [x |-> o, y |-> o]] :
        tile \in Tiles, o \in {0, TILE_DIM - 1}}

\* 0.0, 0.25, 1.0 and 1.5 tiles.
Radii == {0, TILE_DIM \div 4, TILE_DIM, TILE_DIM + (TILE_DIM \div 2)}

InitRadius ==
    /\ \E gs \in SampleStores : StoreIs(gs)
    /\ AtRest
    /\ pc = "radius"
    /\ \E pos \in Centres, radius \in Radii,
          op \in {"iter_trees_in_radius", "iter_trees_in_radius_mut"} :
          arg = [op |-> op, pos |-> pos, radius |-> radius]
    /\ ret = None

\* ret.box is the cell box the iterator is made on, ret.items what is yielded.
RadiusCall ==
    /\ pc = "radius"
    /\ arg.op = "iter_trees_in_radius"
    /\ ret' = [box   |-> RadiusBox(arg.pos, arg.radius),
               items |-> iter_trees_in_radius(trees, arg.pos, arg.radius)]
    /\ pc' = "found"
    /\ UNCHANGED <<trees, per_tile_tree_count, count_trees, arg, tick>>

RadiusCallMut ==
    /\ pc = "radius"
    /\ arg.op = "iter_trees_in_radius_mut"
    /\ ret' = [box   |-> RadiusBox(arg.pos, arg.radius),
               items |-> iter_trees_in_radius_mut(trees, arg.pos, arg.radius)]
    /\ pc' = "found"
    /\ UNCHANGED <<trees, per_tile_tree_count, count_trees, arg, tick>>

NextRadius ==
    \/ RadiusCall
    \/ RadiusCallMut

SpecRadius == InitRadius /\ [][NextRadius]_vars

\* The occupied slots whose tree is within the radius of the centre.
WithinRadius(trs, pos, radius) ==
    {s \in Slots : is_some(trs[s])
                     /\ distance_sq(unwrap(trs[s]).position, pos) <= radius * radius}

(***************************************************************************)
(* C6.  For a centre whose tile coordinate is inside the grid and a radius *)
(* r >= 0, iter_trees_in_radius (and its _mut twin) yields exactly the     *)
(* occupied slots whose tree lies at squared distance <= r * r from the    *)
(* centre, each once, and the cell box it reads lies within [0, D) on both *)
(* axes.                                                                   *)
(***************************************************************************)
C6_TreesInRadius ==
    pc = "found" =>
        /\ SeqRange(ret.items) = WithinRadius(trees, arg.pos, arg.radius)
        /\ Len(ret.items) = Cardinality(SeqRange(ret.items))
        /\ \A i \in 1 .. 2 :
              /\ 0 <= ret.box.min[i]
              /\ ret.box.min[i] <= ret.box.max[i]
              /\ ret.box.max[i] < GRID_DIM

\* A query whose radius reaches past the grid on one side and into another
\* cell on the other has yielded a tree of another cell than the centre's and
\* left out a tree of the box.
C6_Witness ==
    /\ pc = "found"
    /\ arg.pos.coord.x = 0
    /\ arg.pos.offset.x < arg.radius
    /\ ret.box.max[1] > 0
    /\ \E i \in 1 .. Len(ret.items) :
          TileCoord(ret.items[i] \div NUM_TREES_PER_TILE) # arg.pos.coord
    /\ \E s \in Slots : /\ is_some(trees[s])
                        /\ InBox(s, ret.box.min, ret.box.max)
                        /\ s \notin SeqRange(ret.items)

(***************************************************************************)
(* C7, as stated.  iter_trees_in_radius with radius = 0 yields the empty   *)
(* sequence, for every centre position and every content of the store.     *)
(***************************************************************************)
C7_RadiusZeroEmpty ==
    (pc = "found" /\ arg.op = "iter_trees_in_radius" /\ arg.radius = 0) =>
        ret.items = <<>>

(***************************************************************************)
(* C7, amended.  iter_trees_in_radius with radius = 0 and a centre on the  *)
(* grid yields exactly the occupied slots whose tree is at squared         *)
(* distance 0 from the centre (the trees standing at the centre), so it is *)
(* empty only when no tree stands there.                                   *)
(***************************************************************************)
C7_RadiusZeroYieldsCentre ==
    (pc = "found" /\ arg.op = "iter_trees_in_radius" /\ arg.radius = 0) =>
        /\ SeqRange(ret.items) =
              {s \in Slots : is_some(trees[s]) /\ unwrap(trees[s]).position = arg.pos}
        /\ Len(ret.items) = Cardinality(SeqRange(ret.items))

\* A query with radius 0 has yielded a tree, while other trees stand in the
\* centre's cell.
C7_Witness ==
    /\ pc = "found"
    /\ arg.op = "iter_trees_in_radius"
    /\ arg.radius = 0
    /\ ret.items # <<>>
    /\ \E s \in Slots : /\ is_some(trees[s])
                        /\ unwrap(trees[s]).position.coord = arg.pos.coord
                        /\ s \notin SeqRange(ret.items)

(***************************************************************************)
(* Single calls of set_shade_from_surrounding_trees, on a tree with other  *)
(* trees of several species and stages around it.                          *)
(***************************************************************************)
\* growth_target of a tree that has reached the stage: the sum of the growth
\* required for every stage up to it.
RECURSIVE TargetAt(_, _)
TargetAt(species, rank) ==
    IF rank = 0 THEN 0
    ELSE TargetAt(species, rank - 1) +
             (IF is_some(growth_required(species, Stages[rank]))
              THEN unwrap(growth_required(species, Stages[rank])) ELSE 0)

\* A tree of the species that has grown to the stage.
Staged(species, stage, position) ==
    [TreeNew(species, position) EXCEPT
        !.stage = stage,
        !.growth = TargetAt(species, StageRank(stage) - 1),
        !.growth_target = IF stage = "Stump" THEN None
                          ELSE Some(TargetAt(species, StageRank(stage)))]

\* The tree goes into the first slot past its cell's count, if there is one.
Put(gs, tree) ==
    LET tile == tile_index(tree.position.coord.x, tree.position.coord.y)
    IN  IF gs.per_tile_tree_count[tile] < NUM_TREES_PER_TILE
        THEN [trees |-> [gs.trees EXCEPT
                            ![tree_slot_index(tile, gs.per_tile_tree_count[tile])] = Some(tree)],
              per_tile_tree_count |-> [gs.per_tile_tree_count EXCEPT ![tile] = @ + 1],
              count_trees |-> gs.count_trees + 1]
        ELSE gs

\* The tree whose shade is set stands in slot 0, at 0.4 tiles from the left
\* edge of tile (0, 0).
ShadedPosition ==
    [coord |-> [x |-> 0, y |-> 0], offset |-> [x |-> 2 * (TILE_DIM \div 5), y |-> 0]]

\* Positions at 0, 0.3, 0.85, 0.9, 1.0 and 1.2 tiles from it.
NearPositions ==
    {PosAddOffset(ShadedPosition, [x |-> dx, y |-> 0]) :
        dx \in {0, (3 * TILE_DIM) \div 10, (17 * TILE_DIM) \div 20,
                (9 * TILE_DIM) \div 10, (6 * TILE_DIM) \div 5}}
    \cup {PosAddOffset(ShadedPosition, [x |-> 0, y |-> TILE_DIM])}

NearKinds ==
    {<<"Ash", "Mature">>, <<"Fir", "Seedling">>, <<"Fir", "Old">>,
     <<"Ash", "Sprout">>, <<"Ash", "Snag">>}

NearTrees == {Staged(k[1], k[2], p) : k \in NearKinds, p \in NearPositions}

\* shade_factor values the tree may hold before the call.
PreviousShades == {ShadeOne, ShadeZero, ShadeMul(ShadeOne, 11, 4)}

ShadeStores ==
    LET first == {Put(EmptyStore, [Staged("Ash", "Mature", ShadedPosition)
                                      EXCEPT !.shade_factor = sh]) : sh \in PreviousShades}
        one   == {Put(gs, t) : gs \in first, t \in NearTrees}
        two   == {Put(gs, t) : gs \in one, t \in NearTrees}
    IN  first \cup one \cup two

InitShade ==
    /\ \E gs \in ShadeStores : StoreIs(gs)
    /\ AtRest
    /\ pc = "shade"
    /\ arg = None
    /\ ret = None

SetShade ==
    /\ pc = "shade"
    /\ arg' = [op |-> "set_shade_from_surrounding_trees", tree_slot_index |-> 0, gs |-> store]
    /\ trees' = set_shade_from_surrounding_trees(trees, 0)
    /\ pc' = "shaded"
    /\ UNCHANGED <<per_tile_tree_count, count_trees, ret, tick>>

\* The same call once more; ret keeps the store the first call was made on.
SetShadeAgain ==
    /\ pc = "shaded"
    /\ arg' = [arg EXCEPT !.gs = store]
    /\ ret' = arg.gs
    /\ trees' = set_shade_from_surrounding_trees(trees, arg.tree_slot_index)
    /\ pc' = "reshaded"
    /\ UNCHANGED <<per_tile_tree_count, count_trees, tick>>

NextShade ==
    \/ SetShade
    \/ SetShadeAgain

SpecShade == InitShade /\ [][NextShade]_vars

ShadowOf(trs, s) == shadow_radius(unwrap(trs[s]).species, unwrap(trs[s]).stage)
DistanceOf(trs, s1, s2) == distance(unwrap(trs[s1]).position, unwrap(trs[s2]).position)

\* The other trees within scan radius 1.0 whose shadow radius r is > 0 and
\* whose distance d is <= r.
Shaders(trs, tree_slot) ==
    {s \in Slots \ {tree_slot} :
        /\ is_some(trs[s])
        /\ distance_sq(unwrap(trs[s]).position, unwrap(trs[tree_slot]).position)
              <= TILE_DIM * TILE_DIM
        /\ ShadowOf(trs, s) > 0
        /\ DistanceOf(trs, tree_slot, s) <= ShadowOf(trs, s)}

\* The product of 1 - smoothstep(r, 0, d) over them, from 1.0: 0.0 when one
\* of them stands at distance 0, and otherwise each factor with 0 < d < r as
\* many times as there are trees with that r and d (a factor with d = r is 1.0).
ShadeProduct(trs, tree_slot) ==
    LET S      == Shaders(trs, tree_slot)
        Key(s) == <<ShadowOf(trs, s), DistanceOf(trs, tree_slot, s)>>
        Inside == {s \in S : DistanceOf(trs, tree_slot, s) < ShadowOf(trs, s)}
    IN  IF \E s \in S : DistanceOf(trs, tree_slot, s) = 0
        THEN ShadeZero
        ELSE [kind |-> "fin",
              f    |-> [k \in {Key(s) : s \in Inside} |->
                           Cardinality({s \in Inside : Key(s) = k})]]

SameTreeMoved(s, u) ==
    /\ u \div NUM_TREES_PER_TILE = s \div NUM_TREES_PER_TILE
    /\ is_some(trees[u])
    /\ trees'[s] = trees[u]

\* The stage of the tree in slot s does not move backwards in this step.
StageKept(s) ==
    IF pc = "repack"
    THEN \E u \in Slots : SameTreeMoved(s, u)
    ELSE is_some(trees[s]) =>
            StageRank(unwrap(trees'[s]).stage) >= StageRank(unwrap(trees[s]).stage)

(***************************************************************************)
(* C11.  For every tree, over its whole life in the store, the growth      *)
(* stage never moves backwards in the order Sprout < Seedling < Sapling <  *)
(* Mature < Old < Decline < Snag < Stump, whether grow() or a Kill event   *)
(* changes it; a Stump stays a Stump until it is deleted.                  *)
(***************************************************************************)
C11_StageNeverRegresses ==
    [][\A s \in Slots : is_some(trees'[s]) =>
          /\ StageKept(s)
          /\ (pc # "repack" /\ is_some(trees[s]) /\ unwrap(trees[s]).stage = "Stump")
                => unwrap(trees'[s]).stage = "Stump"]_vars

\* A tick has ended in which a Kill event made a Snag of a Sapling (its
\* growth_target is the requirement of the Snag stage alone), next to a tree
\* that grow() has taken from Sprout to Mature.
C11_Witness ==
    /\ Idle
    /\ \E i \in 1 .. Len(tree_events) : tree_events[i].type = "Kill"
    /\ \E s \in OccupiedSlots, u \in OccupiedSlots :
          /\ unwrap(trees[s]).stage = "Snag"
          /\ unwrap(trees[s]).growth_target =
                growth_required(unwrap(trees[s]).species, "Snag")
          /\ unwrap(trees[u]).stage = "Mature"

(***************************************************************************)
(* Single calls of Tree::grow, on trees of every species and stage as the  *)
(* scan and kill_tree leave them.                                          *)
(***************************************************************************)

\* The growth a tree may have come to: the target of the stage before, just
\* below its own target, the target itself, and far beyond it.
GrowthsAt(species, stage) ==
    {TargetAt(species, StageRank(stage) - 1),
     TargetAt(species, StageRank(stage)) - 1,
     TargetAt(species, StageRank(stage)),
     TargetAt(species, Len(Stages)) + (500 * ONE)}

\* dt_s * growth_multiplier: nothing, a thousandth of a second, a few
\* seconds, a step longer than a whole life, and the two an unusable
\* shade_factor gives.
GrowSteps == {0, 1, 3 * ONE, 500 * ONE, INF, NaN}

GrowTrees ==
    UNION {{[Staged(sp, st, ShadedPosition) EXCEPT !.growth = g] : g \in GrowthsAt(sp, st)} :
              sp \in AllSpecies, st \in StageSet}
    \cup
    \* a Snag made by kill_tree
    {[Staged(sp, "Snag", ShadedPosition) EXCEPT
        !.growth = TargetAt(sp, 3), !.growth_target = growth_required(sp, "Snag")] :
        sp \in AllSpecies}

InitGrow ==
    /\ StoreIs(EmptyStore)
    /\ AtRest
    /\ pc = "grow"
    /\ \E t \in GrowTrees, dt \in GrowSteps : arg = [op |-> "grow", t |-> t, dt_s |-> dt]
    /\ ret = None

\* let new_grow_stage = tree.grow(dt_s): the tree afterwards and the value returned.
Grow ==
    /\ pc = "grow"
    /\ pc' = "grown"
    /\ ret' = [tree |-> grow(arg.t, arg.dt_s), stage |-> grow(arg.t, arg.dt_s).stage]
    /\ UNCHANGED <<trees, per_tile_tree_count, count_trees, arg, tick>>

\* The next call, with the same dt, on a tree whose stage the call has changed.
GrowAgain ==
    /\ pc = "grown"
    /\ ret.stage # arg.t.stage
    /\ pc' = "grow"
    /\ arg' = [arg EXCEPT !.t = ret.tree]
    /\ ret' = None
    /\ UNCHANGED <<trees, per_tile_tree_count, count_trees, tick>>

NextGrow == Grow \/ GrowAgain

SpecGrow == InitGrow /\ [][NextGrow]_vars

(***************************************************************************)
(* C12.  Tree::grow(dt) on a tree that is not a Stump adds dt times the    *)
(* base growth speed to the growth accumulator; if the accumulator is then *)
(* strictly greater than the current growth_target the stage advances by   *)
(* exactly one step, however large dt is, and the new growth_target is the *)
(* old target plus the growth required for the new stage (none for Stump,  *)
(* which requires none); otherwise stage and growth_target are unchanged.  *)
(* The returned value is the tree's stage after the call.                  *)
(***************************************************************************)
C12_Grow ==
    (pc = "grown" /\ arg.t.stage # "Stump") =>
        LET t     == arg.t
            after == ret.tree
            old   == unwrap(t.growth_target)
        IN  /\ after.growth = FAdd(t.growth, FMul(t.base_growth_speed, arg.dt_s))
            /\ IF FGt(after.growth, old)
               THEN /\ StageRank(after.stage) = StageRank(t.stage) + 1
                    /\ after.growth_target =
                          IF after.stage = "Stump" THEN None
                          ELSE Some(old + unwrap(growth_required(t.species, after.stage)))
               ELSE /\ after.stage = t.stage
                    /\ after.growth_target = t.growth_target
            /\ ret.stage = after.stage
            /\ after.species = t.species
            /\ after.base_growth_speed = t.base_growth_speed

\* A Sprout grown by a step longer than a whole life: it is a Seedling, and
\* its growth is past the Seedling's target as well.
C12_Witness ==
    /\ pc = "grown"
    /\ arg.t.stage = "Sprout"
    /\ arg.dt_s = 500 * ONE
    /\ ret.stage = "Seedling"
    /\ FGt(ret.tree.growth, unwrap(ret.tree.growth_target))

(***************************************************************************)
(* C13.  For every tree in the store at all times (after planting, after   *)
(* any grow() call and after any Kill event), growth_target is None if and *)
(* only if the tree's stage is Stump.                                      *)
(***************************************************************************)
C13_TargetNoneIffStump ==
    \A s \in OccupiedSlots :
        unwrap(trees[s]).growth_target = None <=> unwrap(trees[s]).stage = "Stump"

\* The store holds a Stump, without a target, after fewer ticks than there are
\* stages to grow through: a Kill event made it a Snag and grow() a Stump.
C13_Witness ==
    /\ ticks < Len(Stages) - 1
    /\ \E s \in OccupiedSlots :
          /\ unwrap(trees[s]).stage = "Stump"
          /\ unwrap(trees[s]).growth_target = None

(***************************************************************************)
(* One update_trees() call on stores where a tree stands among neighbours  *)
(* that shade it to just above, just below and exactly the kill threshold, *)
(* on its preferred soil and off it.                                       *)
(***************************************************************************)
\* The position on the tile at x units from its left edge.
At(tile, x) == [coord |-> TileCoord(tile), offset |-> [x |-> x, y |-> 0]]

RECURSIVE PutAll(_, _)
PutAll(gs, ts) == IF ts = <<>> THEN gs ELSE PutAll(Put(gs, ts[1]), Tail(ts))

\* Every tree of the store with the shade_factor its neighbours give it.
ShadeAll(gs) ==
    [gs EXCEPT !.trees =
        [s \in Slots |->
            IF is_some(gs.trees[s])
            THEN Some([unwrap(gs.trees[s]) EXCEPT
                          !.shade_factor = ComputedShade(gs.trees, s)])
            ELSE None]]

\* The trees around the tree at 0.4 tiles from the left edge of the tile.
Neighbourhoods(tile) ==
    {<<>>,
     <<Staged("Fir", "Old", At(tile, 4)), Staged("Fir", "Old", At(tile, 13))>>,
     <<Staged("Fir", "Old", At(tile, 3)), Staged("Fir", "Old", At(tile, 14))>>,
     <<Staged("Fir", "Old", At(tile, 4))>>,
     <<Staged("Ash", "Sapling", At(tile, 11))>>,
     <<Staged("Ash", "Old", At(tile, 11))>>,
     <<Staged("Ash", "Mature", At(tile, 8))>>}

ThresholdScenes ==
    UNION {{<<Staged(sp, st, At(tile, 8))>> \o n : n \in Neighbourhoods(tile)} :
              sp \in {"Ash", "Fir"},
              st \in {"Sprout", "Sapling", "Mature", "Snag", "Stump"},
              tile \in {0, GRID_SIZE \div 2}}

\* The position on the tile at (x, y) units from its corner.
AtXY(tile, x, y) == [coord |-> TileCoord(tile), offset |-> [x |-> x, y |-> y]]

\* n trees, all the same.
RECURSIVE Copies(_, _)
Copies(t, n) == IF n <= 0 THEN <<>> ELSE <<t>> \o Copies(t, n - 1)

\* A store without a free slot: a Mature Ash at the corner of the last tile,
\* where the last four tiles of the grid meet (it is the first or the last
\* tree of its cell), and Ash Sprouts a twentieth of a tile from it.  Every
\* Sprout is due a Kill and the Mature Ash its seeds, which is more events
\* than there are slots.
CrowdedScenes ==
    LET last      == GRID_SIZE - 1
        far       == TILE_DIM - 1
        sprout(p) == Staged("Ash", "Sprout", p)
        others    == Copies(sprout(AtXY(last - GRID_DIM - 1, far, far)), NUM_TREES_PER_TILE)
                     \o Copies(sprout(AtXY(last - GRID_DIM, 0, far)), NUM_TREES_PER_TILE)
                     \o Copies(sprout(AtXY(last - 1, far, 0)), NUM_TREES_PER_TILE)
        mature    == <<Staged("Ash", "Mature", AtXY(last, 0, 0))>>
        beside    == Copies(sprout(AtXY(last, 1, 0)), NUM_TREES_PER_TILE - 1)
    IN  {others \o mature \o beside, others \o beside \o mature}

TickScenes == ThresholdScenes \cup CrowdedScenes

TickStores == {ShadeAll(PutAll(EmptyStore, ts)) : ts \in TickScenes}

\* A frame's dt_s, and a step in which every growing tree changes stage.
TickSteps == {ONE \div 30} \cup DtChoices

\* update_trees(dt_s) is entered: no event yet, the scan at its first tree.
InitTick ==
    /\ \E gs \in TickStores : StoreIs(gs)
    /\ tiles = InitTiles
    /\ tile_light_amt = [t \in Tiles |-> 0]
    /\ new_grass_state = InitTiles
    /\ grass_x = 0
    /\ grass_y = 0
    /\ paused = FALSE
    /\ dt_s \in TickSteps
    /\ scan_tile = ScanFrom(per_tile_tree_count, 0, 0).tile
    /\ scan_tree = ScanFrom(per_tile_tree_count, 0, 0).tree
    /\ pc = IF scan_tile >= GRID_SIZE THEN "apply" ELSE "scan"
    /\ trial = 0
    /\ tree_events = <<>>
    /\ event_index = 0
    /\ tiles_to_repack = {}
    /\ ticks = 1
    /\ seeds = 0
    /\ arg = [op |-> "update_trees", gs |-> store]
    /\ ret = None

NextTick == ScanTree \/ SeedTrial \/ ApplyEvent \/ Repack

SpecTick == InitTick /\ [][NextTick]_vars

\* The tree the scan is at.
ScanSlot == tree_slot_index(scan_tile, scan_tree)
ScanTreeAt == unwrap(trees[ScanSlot])

\* shade_factor * soil_multiplier of the tree the scan is at.
ShadeTimesSoil ==
    FMul(Value(ScanTreeAt.shade_factor),
         IF tiles[scan_tile].soil = soil_preference(ScanTreeAt.species)
         THEN ONE ELSE (4 * ONE) \div 10)

KillEventAt(slot) == [type |-> "Kill", tree_slot_index |-> slot]

(***************************************************************************)
(* C14.  When a tree is visited in the scan phase and the event buffer is  *)
(* not full, a Kill event is emitted for it exactly when the tree is alive *)
(* (stage before Snag) and shade_factor times soil_multiplier is <= 0.05,  *)
(* soil_multiplier being 1.0 on the species' preferred soil and 0.4        *)
(* otherwise; 0.05 itself triggers the Kill, and a Snag or Stump never     *)
(* receives a Kill event.                                                  *)
(***************************************************************************)
C14_KillExactlyBelowThreshold ==
    [][(pc = "scan" /\ Len(tree_events) < MAX_NUM_EVENTS) =>
          ((tree_events' = Append(tree_events, KillEventAt(ScanSlot)))
              <=> (/\ ScanTreeAt.stage \notin {"Snag", "Stump"}
                   /\ FLe(ShadeTimesSoil, (5 * ONE) \div 100)))]_vars

\* The scan has just pushed a Kill for a living tree whose shade_factor times
\* soil_multiplier is 0.05 exactly.
C14_Witness ==
    /\ pc \in {"scan", "apply"}
    /\ tree_events # <<>>
    /\ LET last == tree_events[Len(tree_events)]
           tree == unwrap(trees[last.tree_slot_index])
       IN  /\ last.type = "Kill"
           /\ is_alive(tree)
           /\ FMul(Value(tree.shade_factor),
                   soil_multiplier(tiles[last.tree_slot_index \div NUM_TREES_PER_TILE].soil,
                                   tree.species)) = (5 * ONE) \div 100

\* What grow() and the seeding loop write of a tree.
Grown(t) == <<t.growth, t.stage, t.growth_target, t.seed_timer>>

\* The slots the events so far kill or delete, in emission order.
RemovalSlots ==
    LET removals == SelectSeq(tree_events, LAMBDA e : e.type \in {"Kill", "Delete"})
    IN  [i \in 1 .. Len(removals) |-> removals[i].tree_slot_index]

(***************************************************************************)
(* C15.  Within one tick, a tree for which a Kill event is emitted is not  *)
(* grown (its growth accumulator, stage, growth_target and seed_timer are  *)
(* unchanged by the scan) and emits no Plant or Delete event; no slot      *)
(* receives more than one Kill or Delete event in the same tick.           *)
(***************************************************************************)
C15_KilledNotGrown ==
    /\ [][(pc \in {"scan", "seed"}) =>
             \* the visit that emits the Kill emits nothing else, changes no
             \* tree and does not enter the seeding loop
             /\ (pc = "scan" /\ Len(tree_events') > Len(tree_events)
                    /\ tree_events'[Len(tree_events')] = KillEventAt(ScanSlot))
                   => /\ tree_events' = Append(tree_events, KillEventAt(ScanSlot))
                      /\ trees' = trees
                      /\ pc' # "seed"
             \* the visit of a tree changes no other tree but in its shade_factor
             /\ \A s \in Slots \ {ScanSlot} :
                   /\ is_some(trees'[s]) <=> is_some(trees[s])
                   /\ is_some(trees[s]) => Grown(unwrap(trees'[s])) = Grown(unwrap(trees[s]))]_vars
    /\ [](\A i, j \in 1 .. Len(RemovalSlots) : i # j => RemovalSlots[i] # RemovalSlots[j])

\* The scan is over with a Kill for a Sapling that still is a Sapling with
\* the target a Sapling comes with, and with a Plant from another tree.
C15_Witness ==
    /\ pc = "apply"
    /\ event_index = 0
    /\ \E i, j \in 1 .. Len(tree_events) :
          /\ tree_events[i].type = "Kill"
          /\ tree_events[j].type = "Plant"
          /\ LET tree == unwrap(trees[tree_events[i].tree_slot_index])
             IN  /\ tree.stage = "Sapling"
                 /\ tree.growth_target = Some(TargetAt(tree.species, StageRank("Sapling")))

(***************************************************************************)
(* Single calls of kill_tree, as the apply loop makes them, followed by    *)
(* the pack_trees of the repack loop: on a tree of any species and stage,  *)
(* in any slot of a cell that other trees share.                           *)
(***************************************************************************)
KilledPosition == At(0, 2 * (TILE_DIM \div 5))

\* n other trees of the cell, the first of them the j-th.
RECURSIVE Fillers(_, _)
Fillers(j, n) ==
    IF n <= 0 THEN <<>>
    ELSE <<Staged("Fir", "Old", At(0, j))>> \o Fillers(j + 1, n - 1)

\* The tree to kill in the in-cell slot i of a cell of n trees (of i + 1, if n is less).
KillScene(t, i, n) == Fillers(0, i) \o <<t>> \o Fillers(i, n - 1 - i)

KillStores ==
    {[slot |-> tree_slot_index(0, i),
      gs   |-> ShadeAll(PutAll(EmptyStore, KillScene(Staged(sp, st, KilledPosition), i, n)))] :
        sp \in AllSpecies, st \in StageSet,
        i \in 0 .. (NUM_TREES_PER_TILE - 1), n \in 1 .. NUM_TREES_PER_TILE}

InitKill ==
    /\ \E k \in {x \in KillStores : is_some(x.gs.trees[x.slot])} :
          /\ StoreIs(k.gs)
          /\ arg = [op |-> "kill_tree", tree_slot_index |-> k.slot, gs |-> k.gs]
    /\ AtRest
    /\ pc = "kill"
    /\ ret = None

\* Event::Kill { tree_slot_index } => self.kill_tree(tree_slot_index)
KillTree ==
    /\ pc = "kill"
    /\ pc' = "killed"
    /\ SetStore(kill_tree(store, arg.tree_slot_index))
    /\ ret' = store
    /\ UNCHANGED <<arg, tick>>

\* The repack loop's call for the tile of the Kill, which ends the tick's work on the store.
PackKilled ==
    /\ pc = "killed"
    /\ pc' = "packed"
    /\ SetStore(pack_trees(store, arg.tree_slot_index \div NUM_TREES_PER_TILE))
    /\ UNCHANGED <<arg, ret, tick>>

NextKill == KillTree \/ PackKilled

SpecKill == InitKill /\ [][NextKill]_vars

\* The tree kill_tree was called on, and the Snag kill_tree makes of it.
KilledBefore == unwrap(arg.gs.trees[arg.tree_slot_index])
KilledSnag ==
    [KilledBefore EXCEPT !.stage = "Snag",
                         !.growth_target = growth_required(KilledBefore.species, "Snag")]

(***************************************************************************)
(* C16.  Applying a Kill event: a tree at stage Sprout or Seedling has its *)
(* slot cleared in that same tick and is never observed at stage Snag; a   *)
(* tree at stage Sapling, Mature, Old or Decline stays in its cell with    *)
(* stage Snag and growth_target equal to the species' growth requirement   *)
(* for the Snag stage, and is observable as Snag at the end of that tick;  *)
(* a Snag or Stump is left unchanged.                                      *)
(***************************************************************************)
C16_KillTree ==
    /\ pc = "killed" =>
          /\ per_tile_tree_count = arg.gs.per_tile_tree_count
          /\ count_trees = arg.gs.count_trees
          /\ trees = [arg.gs.trees EXCEPT ![arg.tree_slot_index] =
                        CASE KilledBefore.stage \in {"Sprout", "Seedling"} -> None
                          [] KilledBefore.stage \in {"Sapling", "Mature", "Old", "Decline"} ->
                                Some(KilledSnag)
                          [] OTHER -> Some(KilledBefore)]
    /\ pc = "packed" =>
          LET tile == arg.tree_slot_index \div NUM_TREES_PER_TILE
              here == {s \in Slots : /\ s \div NUM_TREES_PER_TILE = tile
                                     /\ is_some(trees[s])
                                     /\ unwrap(trees[s]).position = KilledBefore.position}
          IN  CASE KilledBefore.stage \in {"Sprout", "Seedling"} ->
                      /\ here = {}
                      /\ per_tile_tree_count[tile] = arg.gs.per_tile_tree_count[tile] - 1
                [] KilledBefore.stage \in {"Sapling", "Mature", "Old", "Decline"} ->
                      /\ \E s \in here : /\ trees[s] = Some(KilledSnag)
                                         /\ s % NUM_TREES_PER_TILE < per_tile_tree_count[tile]
                      /\ per_tile_tree_count[tile] = arg.gs.per_tile_tree_count[tile]
                [] OTHER -> store = arg.gs

\* A Mature tree in the middle slot of a full cell was killed and the cell
\* packed: it is a Snag in that slot, with the Snag stage's requirement as target.
C16_Witness ==
    /\ pc = "packed"
    /\ KilledBefore.stage = "Mature"
    /\ arg.tree_slot_index % NUM_TREES_PER_TILE = 1
    /\ per_tile_tree_count[0] = NUM_TREES_PER_TILE
    /\ unwrap(trees[arg.tree_slot_index]).stage = "Snag"
    /\ unwrap(trees[arg.tree_slot_index]).growth_target =
          growth_required(KilledBefore.species, "Snag")

\* The slots whose content this step changes.
ChangedSlots == {s \in Slots : trees'[s] # trees[s]}

\* This step neither inserts nor removes a tree, nor changes a count.
NoTreeInOrOut ==
    /\ \A s \in Slots : is_some(trees'[s]) <=> is_some(trees[s])
    /\ per_tile_tree_count' = per_tile_tree_count
    /\ count_trees' = count_trees

\* This step does to the store what the event asks, and moves no other tree.
EventApplied(e) ==
    IF e.type = "Plant"
    THEN \/ UNCHANGED <<trees, per_tile_tree_count, count_trees>>
         \/ \E s \in Slots :
               /\ ChangedSlots = {s}
               /\ s \div NUM_TREES_PER_TILE = tile_index(e.pos.coord.x, e.pos.coord.y)
               /\ trees[s] = None
               /\ unwrap(trees'[s]).position = e.pos
               /\ unwrap(trees'[s]).species = e.species
               /\ unwrap(trees'[s]).stage = "Sprout"
               /\ unwrap(trees'[s]).growth = 0
    ELSE /\ ChangedSlots \subseteq {e.tree_slot_index}
         /\ per_tile_tree_count' = per_tile_tree_count
         /\ count_trees' = count_trees

(***************************************************************************)
(* C17.  In update_trees no tree is inserted into or removed from the      *)
(* store and no per-cell count changes until the scan over all cells has   *)
(* finished; the collected events are then applied one at a time in the    *)
(* order they were emitted, and cells are compacted only after the last    *)
(* event has been applied.  A tree planted in a tick is therefore not      *)
(* grown, killed or seeded from in that same tick.                         *)
(***************************************************************************)
C17_ScanThenApplyThenPack ==
    /\ [][/\ (pc \in {"scan", "seed"}) => (NoTreeInOrOut /\ event_index' = 0)
          /\ (pc = "apply" /\ event_index < Len(tree_events)) =>
                /\ tree_events' = tree_events
                /\ event_index' = event_index + 1
                /\ EventApplied(tree_events[event_index + 1])
                /\ pc' = "apply"
          /\ (pc = "apply" /\ event_index >= Len(tree_events)) =>
                UNCHANGED <<trees, per_tile_tree_count, count_trees>>
          /\ (pc = "repack") => UNCHANGED <<tree_events, event_index>>]_vars
    /\ [](pc \in {"scan", "seed"} => event_index = 0)
    /\ [](pc = "repack" => event_index = Len(tree_events))

\* The last event has been applied and the repack loop is about to run: a
\* tree planted by one of the tick's events is a Sprout that has not grown,
\* and a slot emptied by another of them is still empty below its cell's count.
C17_Witness ==
    /\ pc = "repack"
    /\ tiles_to_repack # {}
    /\ \E i, j \in 1 .. Len(tree_events) :
          /\ tree_events[i].type = "Plant"
          /\ \E s \in OccupiedSlots :
                /\ unwrap(trees[s]).position = tree_events[i].pos
                /\ unwrap(trees[s]).stage = "Sprout"
                /\ unwrap(trees[s]).growth = 0
          /\ tree_events[j].type \in {"Kill", "Delete"}
          /\ trees[tree_events[j].tree_slot_index] = None

PlantEvents == SelectSeq(tree_events, LAMBDA e : e.type = "Plant")

\* The tile coordinate is one of the grid's.
OnGrid(coord) == coord.x \in 0 .. (GRID_DIM - 1) /\ coord.y \in 0 .. (GRID_DIM - 1)

\* Where a seed of the tree the scan is at may land.
Landings == {PosAddOffset(ScanTreeAt.position, off) : off \in SeedOffsets(ScanTreeAt.species)}

(***************************************************************************)
(* C18.  Every Plant event emitted by seeding, and therefore every         *)
(* plant_tree call made in the apply phase, has a tile coordinate with     *)
(* 0 <= x < D and 0 <= y < D (after wraparound normalization of parent     *)
(* position + seed offset); the boundary coordinates 0 and D-1 are         *)
(* accepted, and a seed landing outside the grid, even by one tile,        *)
(* produces no Plant event.                                                *)
(***************************************************************************)
C18_PlantOnGrid ==
    /\ [](\A i \in 1 .. Len(PlantEvents) : OnGrid(PlantEvents[i].pos.coord))
    /\ [][(pc = "seed" /\ seeds' = seeds + 1 /\ Len(tree_events) < MAX_NUM_EVENTS) =>
             \E pos \in Landings :
                IF OnGrid(pos.coord)
                THEN tree_events' = Append(tree_events,
                         [type |-> "Plant", pos |-> pos, species |-> ScanTreeAt.species])
                ELSE tree_events' = tree_events]_vars

\* The scan of the first tick with seeds is over (no tree planted yet): of two seeds one
\* landed in the last row, on the grid's edge, and is a Plant event; the other
\* landed a tile outside the grid and left no event.
C18_Witness ==
    /\ pc = "apply"
    /\ event_index = 0
    /\ seeds = 2
    /\ Len(PlantEvents) = 1
    /\ PlantEvents[1].pos.coord.y = GRID_DIM - 1
    /\ count_trees = 2 * NUM_INITIAL_TREES

\* The first n events of the buffer.
Recorded(events, n) == SubSeq(events, 1, n)

(***************************************************************************)
(* C19.  At most MAX_NUM_EVENTS (= GRID_SIZE x NUM_TREES_PER_TILE) events  *)
(* are recorded and applied in one tick; an event emitted while the buffer *)
(* is full is dropped without error and without altering the events        *)
(* already recorded, and the tick still ends with the packed-front         *)
(* invariant holding.                                                      *)
(***************************************************************************)
C19_EventBufferBound ==
    /\ [](/\ Len(tree_events) <= GRID_SIZE * NUM_TREES_PER_TILE
          /\ event_index <= Len(tree_events))
    /\ [][(pc \in {"scan", "seed"}) =>
             /\ Len(tree_events') \in {Len(tree_events), Len(tree_events) + 1}
             /\ Recorded(tree_events', Len(tree_events)) = tree_events
             /\ pc' \in {"scan", "seed", "apply"}]_vars
    /\ [](pc = "grass" => \A tile \in Tiles : PackedCell(trees, per_tile_tree_count, tile))

\* update_trees has returned with a full buffer, and a Sprout that the scan
\* found under the threshold is still in the store: its Kill found no room.
C19_Witness ==
    /\ pc = "grass"
    /\ Len(tree_events) = MAX_NUM_EVENTS
    /\ \E i \in 1 .. Len(tree_events) : tree_events[i].type = "Plant"
    /\ \E s \in OccupiedSlots :
          /\ unwrap(trees[s]).stage = "Sprout"
          /\ unwrap(trees[s]).growth = 0
          /\ FLe(growth_multiplier(unwrap(trees[s]), tiles[s \div NUM_TREES_PER_TILE].soil),
                 KILL_THRESHOLD)

\* The events of the tick that ask for a tree on the tile, and those that
\* take one of its trees out of the store.
PlantsOn(tile) ==
    {i \in 1 .. Len(tree_events) :
        /\ tree_events[i].type = "Plant"
        /\ tile_index(tree_events[i].pos.coord.x, tree_events[i].pos.coord.y) = tile}

RemovalsOn(tile) ==
    {i \in 1 .. Len(tree_events) :
        /\ tree_events[i].type \in {"Kill", "Delete"}
        /\ tree_events[i].tree_slot_index \div NUM_TREES_PER_TILE = tile
        /\ \/ tree_events[i].type = "Delete"
           \/ unwrap(arg.gs.trees[tree_events[i].tree_slot_index]).stage
                 \in {"Sprout", "Seedling"}}

\* The Plant events that found room: the cell takes trees up to K, counting
\* from the count it had when the tick began.
Succeeded(tile) ==
    Min(Cardinality(PlantsOn(tile)), NUM_TREES_PER_TILE - arg.gs.per_tile_tree_count[tile])

RECURSIVE SumOver(_, _)
SumOver(f, S) ==
    IF S = {} THEN 0
    ELSE LET x == CHOOSE y \in S : TRUE IN f[x] + SumOver(f, S \ {x})

(***************************************************************************)
(* C20.  For every cell and every tick, the cell's count after the tick    *)
(* equals its count before the tick, plus the number of Plant events that  *)
(* succeeded on it, minus the number of its trees removed by a Delete      *)
(* event or by a Kill of a Sprout or Seedling; in particular a single      *)
(* Stump deletion lowers the count by exactly 1 and leaves no empty slot   *)
(* below the new count.                                                    *)
(***************************************************************************)
C20_CountAfterTick ==
    (pc = "grass" /\ arg # None /\ arg.op = "update_trees") =>
        /\ \A tile \in Tiles :
              /\ per_tile_tree_count[tile] =
                    arg.gs.per_tile_tree_count[tile] + Succeeded(tile)
                        - Cardinality(RemovalsOn(tile))
              /\ PackedCell(trees, per_tile_tree_count, tile)
        \* plant_tree counts the trees it has inserted in count_trees
        /\ count_trees - arg.gs.count_trees = SumOver([t \in Tiles |-> Succeeded(t)], Tiles)

\* update_trees has returned: a Stump that stood first in its cell, before a
\* Fir, was deleted, a seed of the Fir was planted in the cell, and the cell
\* again counts two trees.
C20_Witness ==
    /\ pc = "grass"
    /\ arg # None
    /\ arg.op = "update_trees"
    /\ \E tile \in Tiles :
          /\ arg.gs.per_tile_tree_count[tile] = 2
          /\ unwrap(arg.gs.trees[tree_slot_index(tile, 0)]).stage = "Stump"
          /\ \E i \in RemovalsOn(tile) :
                /\ tree_events[i].type = "Delete"
                /\ tree_events[i].tree_slot_index = tree_slot_index(tile, 0)
          /\ Cardinality(RemovalsOn(tile)) = 1
          /\ Cardinality(PlantsOn(tile)) = 1
          /\ per_tile_tree_count[tile] = 2
          /\ unwrap(trees[tree_slot_index(tile, 1)]).stage = "Sprout"

(***************************************************************************)
(* C21.  After any sequence of ticks, count_trees equals the number of     *)
(* occupied slots of the tree array, which is the sum of the per-cell      *)
(* counts.                                                                 *)
(***************************************************************************)
C21_CountIsOccupied ==
    Idle =>
        /\ count_trees = Cardinality(OccupiedSlots)
        /\ count_trees = SumOver(per_tile_tree_count, Tiles)

\* Between two update() calls, after a tree was removed: the per-cell counts
\* agree with the slots, and count_trees is above them.
C21_Witness ==
    /\ Idle
    /\ ticks > 0
    /\ SumOver(per_tile_tree_count, Tiles) = Cardinality(OccupiedSlots)
    /\ count_trees > Cardinality(OccupiedSlots)

(***************************************************************************)
(* update_grass() on its own: one pass over a grid of MaxGrassDim x        *)
(* MaxGrassDim tiles, from a grid in which a tile and the tiles around it  *)
(* are set up, with the random source forced to one sample for the pass.   *)
(***************************************************************************)
MaxGrassDim == 6

GrassTiles == 0 .. ((MaxGrassDim * MaxGrassDim) - 1)
GrassSlots == 0 .. ((MaxGrassDim * MaxGrassDim * NUM_TREES_PER_TILE) - 1)
GrassTile(c) == c[1] + (c[2] * MaxGrassDim)
GrassXY(tile) == <<tile % MaxGrassDim, tile \div MaxGrassDim>>

\* The tiles that are set up: in a corner, on the diagonal, and one, two
\* and three tiles off the diagonal.
GrassFocus == {<<0, 0>>, <<1, 1>>, <<2, 1>>, <<1, 3>>, <<1, 4>>}

Ring(c) ==
    {n \in ((c[1] - 1) .. (c[1] + 1)) \X ((c[2] - 1) .. (c[2] + 1)) :
        /\ n # c
        /\ n[1] >= 0 /\ n[1] < MaxGrassDim
        /\ n[2] >= 0 /\ n[2] < MaxGrassDim}

\* The place of a tile in the order of the loops (x outside, y inside).
VisitRank(c) == (c[1] * MaxGrassDim) + c[2]
FirstVisited(S, n) == {c \in S : Cardinality({d \in S : VisitRank(d) < VisitRank(c)}) < n}
LastVisited(S, n)  == {c \in S : Cardinality({d \in S : VisitRank(d) > VisitRank(c)}) < n}

\* The stages of the trees on the tile (light 1.0, 0.5, 0.25 and 0.891),
\* and whether the tile of the ring that is visited first holds a Mature
\* and an Old tree (light 0.25).
GrassShades ==
    {[on |-> <<>>, ring |-> FALSE], [on |-> <<"Mature">>, ring |-> FALSE],
     [on |-> <<"Mature", "Old">>, ring |-> FALSE],
     [on |-> <<"Sapling", "Seedling">>, ring |-> FALSE],
     [on |-> <<>>, ring |-> TRUE]}

GrassTreesOn(c, sh) ==
    IF c = sh.focus THEN sh.on
    ELSE IF sh.ring /\ c \in FirstVisited(Ring(sh.focus), 1) THEN <<"Mature", "Old">>
    ELSE <<>>

GrassStore(sh) ==
    [trees |->
        [s \in GrassSlots |->
            LET c  == GrassXY(s \div NUM_TREES_PER_TILE)
                i  == (s % NUM_TREES_PER_TILE) + 1
                on == GrassTreesOn(c, sh)
            IN  IF i <= Len(on)
                THEN Some(Staged("Ash", on[i],
                         [coord |-> [x |-> c[1], y |-> c[2]], offset |-> [x |-> 0, y |-> 0]]))
                ELSE None],
     per_tile_tree_count |-> [t \in GrassTiles |-> Len(GrassTreesOn(GrassXY(t), sh))],
     count_trees |-> Len(sh.on) + (IF sh.ring THEN 2 ELSE 0)]

GrassGrid(focus, cover, grassy, around) ==
    [t \in GrassTiles |->
        [cover |-> IF GrassXY(t) = focus THEN cover
                   ELSE IF GrassXY(t) \in Ring(focus)
                        THEN (IF GrassXY(t) \in grassy THEN "Grass" ELSE "Dirt")
                        ELSE around,
         soil  |-> IF t < (MaxGrassDim * MaxGrassDim) \div 2 THEN "Stony" ELSE "Normal"]]

\* The tiles of the ring that are Grass, and the cover of the rest of the
\* grid: the n tiles visited first in a grid of Grass, or the n tiles
\* visited last in a grid of Dirt.
GrassPatterns(f) ==
    {[grassy |-> FirstVisited(Ring(f), n), around |-> "Grass"] : n \in 0 .. 8} \cup
    {[grassy |-> LastVisited(Ring(f), n), around |-> "Dirt"] : n \in {0, 1, 2, 4, 6, 8}}

\* The scenes around one tile, itself Grass or Dirt.
GrassScenesAt(f) ==
    {[tiles |-> GrassGrid(f, cover, p.grassy, p.around),
      gs    |-> GrassStore([focus |-> f, on |-> sh.on, ring |-> sh.ring])] :
        cover \in {"Grass", "Dirt"}, p \in GrassPatterns(f), sh \in GrassShades}

GrassScenes == UNION {GrassScenesAt(f) : f \in GrassFocus}

InitGrass ==
    /\ \E sc \in GrassScenes, roll \in GrassRolls :
          /\ StoreIs(sc.gs)
          /\ tiles = sc.tiles
          /\ new_grass_state = sc.tiles
          /\ arg = [op |-> "update_grass", tiles |-> sc.tiles, grow_roll |-> roll]
    /\ tile_light_amt = [t \in GrassTiles |-> 0]
    /\ grass_x = 0
    /\ grass_y = 0
    /\ paused = FALSE
    /\ dt_s = 0
    /\ scan_tile = 0
    /\ scan_tree = 0
    /\ trial = 0
    /\ tree_events = <<>>
    /\ event_index = 0
    /\ tiles_to_repack = {}
    /\ ticks = 1
    /\ seeds = 0
    /\ pc = "grass"
    /\ ret = None

GrassPass == GrassStep(MaxGrassDim, {arg.grow_roll})

NextGrass == GrassPass

SpecGrass == InitGrass /\ [][NextGrass]_vars

\* update_grass has returned.
GrassDone == pc = "idle" /\ arg # None /\ arg.op = "update_grass"

\* The Grass neighbours the pass counts for the tile, in the grid as it was
\* when the pass began.
Counted(t) == grassy_neighbor_count(MaxGrassDim, arg.tiles, GrassXY(t)[1], GrassXY(t)[2])

WasDirt(t)  == arg.tiles[t].cover = "Dirt"
WasGrass(t) == arg.tiles[t].cover = "Grass"
Lit(t)      == tile_light_amt[t] > ONE \div 4

\* The step table, in units of 0.00001.
StepTable(n) ==
    IF n = 1 THEN 1
    ELSE IF n = 2 THEN 5
    ELSE IF n >= 3 /\ n <= 5 THEN 10
    ELSE IF n >= 6 /\ n <= 8 THEN 40
    ELSE 0

(***************************************************************************)
(* C22.  After update_grass, every cell whose light_amount computed in     *)
(* that pass is <= 0.25 has ground cover Dirt, whatever its cover was and  *)
(* whatever its neighbours are.                                            *)
(***************************************************************************)
C22_DarkIsDirt ==
    GrassDone =>
        \A t \in GrassTiles :
            /\ tile_light_amt[t] = light_amt(trees, per_tile_tree_count, t)
            /\ tile_light_amt[t] <= ONE \div 4 => tiles[t].cover = "Dirt"

\* A cell that was Grass among Grass, with light exactly 0.25, is Dirt after
\* a pass whose sample is the largest one.
C22_Witness ==
    /\ GrassDone
    /\ arg.grow_roll = ROLL_ONE
    /\ \E t \in GrassTiles :
          /\ WasGrass(t)
          /\ \A c \in Ring(GrassXY(t)) : arg.tiles[GrassTile(c)].cover = "Grass"
          /\ tile_light_amt[t] = ONE \div 4
          /\ tiles[t].cover = "Dirt"

(***************************************************************************)
(* C23.  A Dirt cell with light_amount > 0.25 becomes Grass in a pass only *)
(* if the sample drawn for it is strictly greater than 1 - p, p being the  *)
(* step table's entry for its counted Grass neighbours (1 -> 0.00001,      *)
(* 2 -> 0.00005, 3..5 -> 0.0001, 6..8 -> 0.0004, else 0); so a Dirt cell   *)
(* with no counted Grass neighbour never becomes Grass, and a grid that is *)
(* all Dirt stays all Dirt.                                                *)
(***************************************************************************)
C23_RegrowthOnlyAboveChance ==
    GrassDone =>
        /\ \A t \in GrassTiles :
              (WasDirt(t) /\ Lit(t) /\ tiles[t].cover = "Grass") =>
                  arg.grow_roll > ROLL_ONE - StepTable(Counted(t))
        /\ \A t \in GrassTiles :
              (WasDirt(t) /\ Counted(t) = 0) => tiles[t].cover = "Dirt"
        /\ (\A t \in GrassTiles : WasDirt(t)) => (\A t \in GrassTiles : tiles[t].cover = "Dirt")

\* With the sample 1, a lit Dirt cell with one counted Grass neighbour has
\* become Grass and a lit Dirt cell with none, next to a Grass cell that is
\* not counted, has not.
C23_Witness ==
    /\ GrassDone
    /\ arg.grow_roll = ROLL_ONE
    /\ \E t, u \in GrassTiles :
          /\ WasDirt(t) /\ Lit(t) /\ Counted(t) = 1 /\ tiles[t].cover = "Grass"
          /\ WasDirt(u) /\ Lit(u) /\ Counted(u) = 0 /\ tiles[u].cover = "Dirt"
          /\ \E c \in Ring(GrassXY(u)) : arg.tiles[GrassTile(c)].cover = "Grass"

(***************************************************************************)
(* C24.  A cell that is Grass before a pass and whose light_amount         *)
(* computed in the pass is > 0.25 is still Grass after it; Grass turns     *)
(* into Dirt only through light_amount <= 0.25.                            *)
(***************************************************************************)
C24_LitGrassStays ==
    GrassDone =>
        \A t \in GrassTiles :
            WasGrass(t) =>
                /\ Lit(t) => tiles[t].cover = "Grass"
                /\ tiles[t].cover = "Dirt" => tile_light_amt[t] <= ONE \div 4

\* A Grass cell under a Mature tree (light 0.5) with no counted Grass
\* neighbour is still Grass after a pass with the sample 0.
C24_Witness ==
    /\ GrassDone
    /\ arg.grow_roll = 0
    /\ \E t \in GrassTiles :
          /\ WasGrass(t)
          /\ tile_light_amt[t] = ONE \div 2
          /\ Counted(t) = 0
          /\ tiles[t].cover = "Grass"

\* The cover the claim's rule gives the tile, from the grid as it was when
\* the pass began.
CoverFromOldGrid(t) ==
    IF tile_light_amt[t] <= ONE \div 4 THEN "Dirt"
    ELSE IF WasDirt(t) /\ arg.grow_roll > ROLL_ONE - StepTable(Counted(t)) THEN "Grass"
    ELSE arg.tiles[t].cover

\* A counted neighbour of the tile that is visited before it and whose
\* cover the pass changes.
ChangedBefore(t) ==
    {c \in Ring(GrassXY(t)) :
        /\ c[1] # c[2]
        /\ VisitRank(c) < VisitRank(GrassXY(t))
        /\ tiles[GrassTile(c)].cover # arg.tiles[GrassTile(c)].cover}

(***************************************************************************)
(* C25.  update_grass computes every cell's next cover from the cover grid *)
(* as it was at the start of the pass: a cell whose cover changes in the   *)
(* pass is still read with its old cover when another cell counts its      *)
(* neighbours, and the new grid replaces the old one only after all cells  *)
(* have been computed.                                                     *)
(***************************************************************************)
C25_ReadsOldGrid ==
    (arg # None /\ arg.op = "update_grass") =>
        /\ pc = "grass" => tiles = arg.tiles
        /\ pc = "idle" =>
              \A t \in GrassTiles :
                  tiles[t] = [cover |-> CoverFromOldGrid(t), soil |-> arg.tiles[t].soil]

\* After the pass: a lit Dirt cell whose counted neighbours changed cover
\* before it was visited, so that the count in the new grid has another
\* chance than the count in the old one, and the sample lies between them.
C25_Witness ==
    /\ GrassDone
    /\ \E t \in GrassTiles :
          LET now == grassy_neighbor_count(MaxGrassDim, tiles, GrassXY(t)[1], GrassXY(t)[2])
          IN  /\ WasDirt(t) /\ Lit(t)
              /\ ChangedBefore(t) # {}
              /\ \/ /\ arg.grow_roll > ROLL_ONE - StepTable(now)
                    /\ ~ (arg.grow_roll > ROLL_ONE - StepTable(Counted(t)))
                    /\ tiles[t].cover = "Dirt"
                 \/ /\ arg.grow_roll > ROLL_ONE - StepTable(Counted(t))
                    /\ ~ (arg.grow_roll > ROLL_ONE - StepTable(now))
                    /\ tiles[t].cover = "Grass"

(***************************************************************************)
(* C27.  A Dirt cell with light_amount > 0.25 and 6 to 8 counted Grass     *)
(* neighbours becomes Grass in a pass in which the sample drawn for it is  *)
(* exactly 1 - 0.0004.                                                     *)
(***************************************************************************)
C27_FlipsAtChance ==
    (GrassDone /\ arg.grow_roll = ROLL_ONE - 40) =>
        \A t \in GrassTiles :
            (WasDirt(t) /\ Lit(t) /\ Counted(t) \in 6 .. 8) => tiles[t].cover = "Grass"

(***************************************************************************)
(* C27, as amended.  A Dirt cell with light_amount > 0.25 and 6 to 8       *)
(* counted Grass neighbours becomes Grass in a pass in which the sample    *)
(* drawn for it is strictly greater than 1 - 0.0004, and stays Dirt in a   *)
(* pass in which the sample is exactly 1 - 0.0004 or less.                 *)
(***************************************************************************)
C27_FlipsAboveChance ==
    GrassDone =>
        \A t \in GrassTiles :
            (WasDirt(t) /\ Lit(t) /\ Counted(t) \in 6 .. 8) =>
                (tiles[t].cover = "Grass" <=> arg.grow_roll > ROLL_ONE - 40)

\* A lit Dirt cell with 8 counted Grass neighbours is Grass after a pass
\* with the sample 1 - 0.0001.
C27_Witness ==
    /\ GrassDone
    /\ arg.grow_roll = ROLL_ONE - 10
    /\ \E t \in GrassTiles :
          WasDirt(t) /\ Lit(t) /\ Counted(t) = 8 /\ tiles[t].cover = "Grass"

(***************************************************************************)
(* WorldPosition's operators with f32 offsets.  An f32 is scaled down to a *)
(* float of MantissaBits significant bits: a value is a whole number of    *)
(* units of 2^-(MantissaBits + 2), and every sum or difference is rounded  *)
(* to the nearest value that has MantissaBits significant bits, ties to    *)
(* the even one, as IEEE arithmetic rounds.                                *)
(***************************************************************************)
MantissaBits == 4

F32_ONE == 2 ^ (MantissaBits + 2)

RECURSIVE BitLen(_)
BitLen(a) == IF a = 0 THEN 0 ELSE 1 + BitLen(a \div 2)

F32Round(n) ==
    LET a == IF n < 0 THEN 0 - n ELSE n
        q == 2 ^ (BitLen(a) - MantissaBits)
    IN  IF BitLen(a) <= MantissaBits THEN n
        ELSE LET lo == (a \div q) * q
                 up == \/ 2 * (a - lo) > q
                       \/ 2 * (a - lo) = q /\ (a \div q) % 2 = 1
                 m  == IF up THEN lo + q ELSE lo
             IN  IF n < 0 THEN 0 - m ELSE m

F32Values(lowest, highest) == {n \in lowest .. highest : F32Round(n) = n}

\* f32::floor, as a number of tiles.
F32Floor(n) == n \div F32_ONE

normalize_f32(pos) ==
    LET floor_x == F32Floor(pos.offset.x)
        floor_y == F32Floor(pos.offset.y)
    IN  [coord  |-> [x |-> pos.coord.x + floor_x, y |-> pos.coord.y + floor_y],
         offset |-> [x |-> F32Round(pos.offset.x - (floor_x * F32_ONE)),
                     y |-> F32Round(pos.offset.y - (floor_y * F32_ONE))]]

sub_f32(self, rhs) ==
    normalize_f32([coord  |-> [x |-> self.coord.x - rhs.coord.x,
                               y |-> self.coord.y - rhs.coord.y],
                   offset |-> [x |-> F32Round(self.offset.x - rhs.offset.x),
                               y |-> F32Round(self.offset.y - rhs.offset.y)]])

add_f32(self, rhs) ==
    normalize_f32([coord  |-> [x |-> self.coord.x + rhs.coord.x,
                               y |-> self.coord.y + rhs.coord.y],
                   offset |-> [x |-> F32Round(self.offset.x + rhs.offset.x),
                               y |-> F32Round(self.offset.y + rhs.offset.y)]])

sub_offset_f32(self, rhs) ==
    normalize_f32([coord  |-> self.coord,
                   offset |-> [x |-> F32Round(self.offset.x - rhs.x),
                               y |-> F32Round(self.offset.y - rhs.y)]])

add_offset_f32(self, rhs) ==
    normalize_f32([coord  |-> self.coord,
                   offset |-> [x |-> F32Round(self.offset.x + rhs.x),
                               y |-> F32Round(self.offset.y + rhs.y)]])

(***************************************************************************)
(* One call of add or sub, on positions whose offsets are in [0, 1) and on *)
(* plain offsets between -2 and 2.                                         *)
(***************************************************************************)
PosSelves ==
    {[coord |-> [x |-> cx, y |-> 0], offset |-> [x |-> ox, y |-> oy]] :
        cx \in {0, 1},
        ox \in {n \in F32Values(0, F32_ONE - 1) :
                   n < 3 \/ n % (F32_ONE \div 4) = 0 \/ n >= F32_ONE - (F32_ONE \div 8)},
        oy \in {0, 1}}

PosOthers ==
    {[coord |-> [x |-> c, y |-> c], offset |-> [x |-> ox, y |-> oy]] :
        c \in {0, 1}, ox \in F32Values(0, F32_ONE - 1), oy \in {0, 1}}

PosOffsets ==
    {[x |-> ox, y |-> oy] :
        ox \in F32Values(0 - (2 * F32_ONE), 2 * F32_ONE),
        oy \in {0 - 1, 0, F32_ONE}}

InitPos ==
    /\ \E gs \in {EmptyStore} : StoreIs(gs)
    /\ AtRest
    /\ pc = "pos"
    /\ \/ \E op \in {"add", "sub"}, self \in PosSelves, rhs \in PosOthers :
             arg = [op |-> op, self |-> self, rhs |-> rhs]
       \/ \E op \in {"add_offset", "sub_offset"}, self \in PosSelves, rhs \in PosOffsets :
             arg = [op |-> op, self |-> self, rhs |-> rhs]
    /\ ret = None

PosCall ==
    /\ pc = "pos"
    /\ pc' = "posdone"
    /\ ret' = CASE arg.op = "add" -> add_f32(arg.self, arg.rhs)
                [] arg.op = "sub" -> sub_f32(arg.self, arg.rhs)
                [] arg.op = "add_offset" -> add_offset_f32(arg.self, arg.rhs)
                [] arg.op = "sub_offset" -> sub_offset_f32(arg.self, arg.rhs)
    /\ UNCHANGED <<arg, trees, per_tile_tree_count, count_trees, tick>>

NextPos == PosCall

SpecPos == InitPos /\ [][NextPos]_vars

\* The operands' sum or difference on each axis, before any rounding and
\* before normalize, in units of 2^-(MantissaBits + 2) tiles.
RawSum(a) ==
    LET sign == IF a.op \in {"add", "add_offset"} THEN 1 ELSE 0 - 1
        other == IF a.op \in {"add", "sub"} THEN a.rhs
                 ELSE [coord |-> [x |-> 0, y |-> 0], offset |-> a.rhs]
    IN  [x |-> ((a.self.coord.x + (sign * other.coord.x)) * F32_ONE)
                 + a.self.offset.x + (sign * other.offset.x),
         y |-> ((a.self.coord.y + (sign * other.coord.y)) * F32_ONE)
                 + a.self.offset.y + (sign * other.offset.y)]

(***************************************************************************)
(* C26.  For every WorldPosition produced by add or sub (with another      *)
(* WorldPosition or with a plain TileOffset), both offset components are   *)
(* in [0, 1), and tile coordinate + offset equals, on each axis, the       *)
(* un-normalized sum or difference of the operands, also when the raw      *)
(* offset is negative or >= 1.                                             *)
(***************************************************************************)
C26_NormalizedSum ==
    pc = "posdone" =>
        /\ ret.offset.x >= 0 /\ ret.offset.x < F32_ONE
        /\ ret.offset.y >= 0 /\ ret.offset.y < F32_ONE
        /\ (ret.coord.x * F32_ONE) + ret.offset.x = RawSum(arg).x
        /\ (ret.coord.y * F32_ONE) + ret.offset.y = RawSum(arg).y

\* A sub whose raw offset is negative and smaller than half the spacing of
\* the floats below 1.0: the result's offset is 1.0, one tile below the
\* difference of the coordinates.
C26_Witness ==
    /\ pc = "posdone"
    /\ arg.op = "sub"
    /\ arg.self.offset.x - arg.rhs.offset.x = 0 - 1
    /\ ret.offset.x = F32_ONE
    /\ ret.coord.x = arg.self.coord.x - arg.rhs.coord.x - 1

\* grow() has returned from a call on a Stump.
StumpGrown ==
    /\ pc = "grown"
    /\ arg # None /\ arg.op = "grow"
    /\ arg.t.stage = "Stump"
    /\ arg.t.growth_target = None

StageGrowers ==
    {[Staged(sp, st, ShadedPosition) EXCEPT !.growth = TargetAt(sp, StageRank(st))] :
        sp \in {"Ash", "Fir"}, st \in StageSet \ {"Stump"}}

StageStores ==
    LET first == {Put(EmptyStore, g) : g \in StageGrowers}
        one   == {Put(gs, t) : gs \in first, t \in NearTrees}
        two   == {Put(gs, t) : gs \in one, t \in NearTrees}
    IN  {ShadeAll(gs) : gs \in first \cup one \cup two}

InitStage ==
    /\ \E gs \in StageStores :
          /\ StoreIs(gs)
          /\ arg = [op |-> "update_shade_for_surrounding_trees", tree_slot_index |-> 0,
                    previous_stage |-> unwrap(gs.trees[0]).stage, gs |-> gs]
    /\ tiles = InitTiles
    /\ tile_light_amt = [t \in Tiles |-> 0]
    /\ new_grass_state = InitTiles
    /\ grass_x = 0
    /\ grass_y = 0
    /\ paused = FALSE
    /\ dt_s \in DtChoices
    /\ scan_tile = 0
    /\ scan_tree = 0
    /\ trial = 0
    /\ tree_events = <<>>
    /\ event_index = 0
    /\ tiles_to_repack = {}
    /\ ticks = 1
    /\ seeds = 0
    /\ pc = "stage"
    /\ ret = None

\* let new_grow_stage = tree.grow(dt_s * growth_multiplier); if the stage has
\* changed, self.update_shade_for_surrounding_trees(slot_index, old_grow_stage).
GrowStage ==
    /\ pc = "stage"
    /\ pc' = "staged"
    /\ trees' = GrownTrees(trees, arg.tree_slot_index, tiles[scan_tile].soil)
    /\ UNCHANGED <<per_tile_tree_count, count_trees, call, tick>>

NextStage == GrowStage

SpecStage == InitStage /\ [][NextStage]_vars

\* The call was made: grow() has changed the stage of the tree in the slot.
StageChanged ==
    /\ pc = "staged"
    /\ arg # None /\ arg.op = "update_shade_for_surrounding_trees"
    /\ unwrap(trees[arg.tree_slot_index]).stage # arg.previous_stage

\* The other trees of the store.
Neighbours == OccupiedSlots \ {arg.tree_slot_index}

(***************************************************************************)
(* C28.  If, before a stage change caused by grow(), every neighbour's     *)
(* shade_factor equals its from-scratch value, then after                  *)
(* update_shade_for_surrounding_trees(slot, previous_stage) every          *)
(* neighbour's shade_factor again equals the from-scratch value, for the   *)
(* new stage.                                                              *)
(***************************************************************************)
C28_UpdateIsFromScratch ==
    StageChanged =>
        \A s \in Neighbours :
            LET stored == Value(unwrap(trees[s]).shade_factor)
            IN  stored # NaN /\ stored = Value(ComputedShade(trees, s))

\* The same, for the neighbours that do not stand at the very position of
\* the tree that has grown.
C28_ApartFromSamePosition ==
    StageChanged =>
        \A s \in Neighbours :
            DistanceOf(trees, s, arg.tree_slot_index) > 0 =>
                unwrap(trees[s]).shade_factor = ComputedShade(trees, s)

\* A neighbour at the position of the tree held 0.0, its from-scratch value,
\* before the call and holds NaN after it.
C28_Witness ==
    /\ StageChanged
    /\ \E s \in Neighbours :
          /\ DistanceOf(trees, s, arg.tree_slot_index) = 0
          /\ unwrap(arg.gs.trees[s]).shade_factor = ShadeZero
          /\ unwrap(trees[s]).shade_factor = ShadeNaN
          /\ ComputedShade(trees, s) = ShadeZero

\* The tree as it stood in the slot when the scan reached it.
Before(s) == unwrap(arg.gs.trees[s])

\* The larger of the shadow radii of the tree's previous and new stage.
LargerRadius ==
    LET tree == unwrap(trees[arg.tree_slot_index])
        old  == shadow_radius(tree.species, arg.previous_stage)
        new  == shadow_radius(tree.species, tree.stage)
    IN  IF old > new THEN old ELSE new

(***************************************************************************)
(* C29.  update_shade_for_surrounding_trees(slot, previous_stage) never    *)
(* changes the shade_factor of the tree in slot itself, changes no tree    *)
(* farther from it than the larger of its old and new shadow radius, and   *)
(* changes no field other than shade_factor on any tree.                   *)
(***************************************************************************)
C29_UpdateFrame ==
    StageChanged =>
        /\ unwrap(trees[arg.tree_slot_index]).shade_factor
               = Before(arg.tree_slot_index).shade_factor
        /\ unwrap(trees[arg.tree_slot_index]).position
               = Before(arg.tree_slot_index).position
        /\ \A s \in Slots : (trees[s] = None) = (arg.gs.trees[s] = None)
        /\ \A s \in Neighbours :
              /\ DistanceOf(trees, s, arg.tree_slot_index) > LargerRadius
                     => unwrap(trees[s]) = Before(s)
              /\ [unwrap(trees[s]) EXCEPT !.shade_factor = Before(s).shade_factor]
                     = Before(s)

\* The stage change has changed the shade_factor of a tree within the larger
\* radius, and another tree stands beyond it.
C29_Witness ==
    /\ StageChanged
    /\ LargerRadius > 0
    /\ \E s \in Neighbours :
          /\ DistanceOf(trees, s, arg.tree_slot_index) <= LargerRadius
          /\ unwrap(trees[s]).shade_factor # Before(s).shade_factor
    /\ \E s \in Neighbours :
          /\ DistanceOf(trees, s, arg.tree_slot_index) > LargerRadius
          /\ Before(s).shade_factor # ShadeOne

(***************************************************************************)
(* One update_trees() call on a store with one tree that is or is not due  *)
(* its seeds: every species, on its preferred soil and off it, before,     *)
(* in and after the seeding stages, its seed_timer running out in this     *)
(* tick or not.  All three trials of the seeding loop may succeed, and the *)
(* timer is redrawn from both ends of its range.                           *)
(***************************************************************************)
\* The tree with its growth short of the target by what a frame adds, so
\* that grow() takes it to the next stage.
AboutToChange(t) == [t EXCEPT !.growth = unwrap(t.growth_target) - 1]

SeedParents ==
    LET staged == {Staged(sp, st, At(tile, 8)) :
                      sp \in AllSpecies, tile \in {0, GRID_SIZE \div 2},
                      st \in {"Sprout", "Sapling", "Mature", "Old", "Decline"}}
        kinds  == staged \cup {AboutToChange(t) : t \in {u \in staged : u.stage \in {"Sapling", "Decline"}}}
    IN  {[t EXCEPT !.seed_timer = timer] :
            t \in kinds, timer \in {0 - ONE, 0, ONE \div 30, ONE}}

SeedStores == {ShadeAll(Put(EmptyStore, t)) : t \in SeedParents}

InitSeed ==
    /\ \E gs \in SeedStores : StoreIs(gs)
    /\ tiles = InitTiles
    /\ tile_light_amt = [t \in Tiles |-> 0]
    /\ new_grass_state = InitTiles
    /\ grass_x = 0
    /\ grass_y = 0
    /\ paused = FALSE
    /\ dt_s \in TickSteps
    /\ scan_tile = ScanFrom(per_tile_tree_count, 0, 0).tile
    /\ scan_tree = ScanFrom(per_tile_tree_count, 0, 0).tree
    /\ pc = "scan"
    /\ trial = 0
    /\ tree_events = <<>>
    /\ event_index = 0
    /\ tiles_to_repack = {}
    /\ ticks = 1
    /\ seeds = 0
    /\ arg = [op |-> "update_trees", gs |-> store]
    /\ ret = None

\* The seeding loop with every trial free to succeed.
SeedTrialAny == SeedStep([species \in AllSpecies |-> SeedTimersInRange(species)], 3)

NextSeed == ScanTree \/ SeedTrialAny \/ ApplyEvent \/ Repack

SpecSeed == InitSeed /\ [][NextSeed]_vars

\* The step is a trial of the seeding loop that succeeds.
SeedingSucceeds == pc = "seed" /\ seeds' = seeds + 1

\* The Plant events pushed so far.
PlantsSoFar == SelectSeq(tree_events, LAMBDA e : e.type = "Plant")

\* The timer lies within average - variation .. average + variation.
Redrawn(species, timer) ==
    LET rate == seed_success_rate(species)
    IN  /\ timer >= rate.average - rate.variation
        /\ timer <= rate.average + rate.variation

\* Plant events come from the seeding loop only, the loop is entered only
\* for a tree that after grow() is Mature, Old or Decline with seed_timer
\* <= 0, it runs three times for a tree and pushes at most one Plant each
\* time, with the species of the tree; a trial that succeeds leaves the
\* timer within average - variation .. average + variation, above 0.
SeedingRules ==
    /\ [][/\ pc # "seed" => PlantsSoFar' = PlantsSoFar
          /\ (pc = "scan" /\ pc' = "seed") =>
                /\ ScanSlot' = ScanSlot
                /\ unwrap(trees'[ScanSlot]).stage \in {"Mature", "Old", "Decline"}
                /\ FLe(unwrap(trees'[ScanSlot]).seed_timer, 0)
          /\ pc = "seed" =>
                /\ trial < 3
                /\ ScanTreeAt.stage \in {"Mature", "Old", "Decline"}
                /\ \/ pc' = "seed" /\ trial' = trial + 1 /\ ScanSlot' = ScanSlot
                   \/ trial = 2 /\ pc' = "apply"
                   \/ trial = 2 /\ pc' = "scan" /\ ScanSlot' > ScanSlot
                /\ \/ PlantsSoFar' = PlantsSoFar
                   \/ /\ SeedingSucceeds
                      /\ \E pos \in {PosAddOffset(ScanTreeAt.position, off) :
                                        off \in SeedOffsets(ScanTreeAt.species)} :
                            PlantsSoFar' = Append(PlantsSoFar,
                                [type |-> "Plant", pos |-> pos, species |-> ScanTreeAt.species])
          /\ SeedingSucceeds =>
                /\ Redrawn(ScanTreeAt.species, unwrap(trees'[ScanSlot]).seed_timer)
                /\ unwrap(trees'[ScanSlot]).seed_timer > 0]_vars
    /\ [](Len(PlantsSoFar) <= 3 * Cardinality(OccupiedSlots))

(***************************************************************************)
(* C31.  In the scan phase a tree emits Plant events only if, after        *)
(* growing in this tick, its stage is Mature, Old or Decline and its       *)
(* seed_timer is <= 0; it emits at most 3 Plant events per tick, each      *)
(* carrying the parent's species; and after any successful seeding trial   *)
(* its seed_timer has been redrawn to a value within [mean - variation,    *)
(* mean + variation] of its species, which is > 0, so it does not seed     *)
(* again until the timer has counted down: a trial succeeds only with a    *)
(* seed_timer <= 0.                                                        *)
(***************************************************************************)
C31_SeedsOnlyWithTimerOut ==
    /\ SeedingRules
    /\ [][SeedingSucceeds => FLe(ScanTreeAt.seed_timer, 0)]_vars

(***************************************************************************)
(* C31, amended.  The same, but the timer is looked at once, before the    *)
(* three trials of the tick: the trials left after one that has succeeded  *)
(* may succeed as well, with the timer just redrawn; a later tick enters   *)
(* the loop only with seed_timer <= 0 again.                               *)
(***************************************************************************)
C31_SeedsOnlyWithTimerOutAtFirst ==
    /\ SeedingRules
    /\ [][SeedingSucceeds =>
             \/ FLe(ScanTreeAt.seed_timer, 0)
             \/ trial > 0 /\ Redrawn(ScanTreeAt.species, ScanTreeAt.seed_timer)]_vars

\* All three trials of a tree that has just become Mature have succeeded:
\* three Plant events of its species, and its timer is above 0.
C31_Witness ==
    /\ pc = "apply"
    /\ seeds = 3
    /\ Len(PlantsSoFar) = 3
    /\ \E s \in OccupiedSlots :
          /\ unwrap(trees[s]).stage = "Mature"
          /\ unwrap(arg.gs.trees[s]).stage = "Sapling"
          /\ unwrap(trees[s]).seed_timer > 0
          /\ \A i \in 1 .. 3 : PlantsSoFar[i].species = unwrap(trees[s]).species

\* The Kill or Delete event at index i of the buffer has been emitted and is
\* not applied yet.
Pending(i) ==
    /\ i \in 1 .. Len(tree_events)
    /\ tree_events[i].type \in {"Kill", "Delete"}
    /\ pc \in {"scan", "seed"} \/ (pc = "apply" /\ i > event_index)

\* The step is not the one that applies event i.
NotApplying(i) == pc \in {"scan", "seed"} \/ i > event_index + 1

\* A tree but for its shade_factor, which a neighbour's stage change rewrites.
TreeApartFromShade(t) == [t EXCEPT !.shade_factor = ShadeOne]

(***************************************************************************)
(* C32.  Every Kill or Delete event, at the moment it is applied, targets  *)
(* a slot that is still occupied by the same tree that emitted it during   *)
(* the scan: no earlier event of the same tick (Plant, Kill or Delete, on  *)
(* the same or another cell) has moved, replaced or cleared that tree, so  *)
(* kill_tree never unwraps an empty slot and plant_tree never overwrites   *)
(* an occupied slot.                                                       *)
(***************************************************************************)
C32_EventTargetsStand ==
    /\ [][\A i \in 1 .. Len(tree_events) :
             Pending(i) =>
                LET slot == tree_events[i].tree_slot_index
                IN  /\ is_some(trees[slot])
                    /\ NotApplying(i) =>
                          /\ is_some(trees'[slot])
                          /\ TreeApartFromShade(unwrap(trees'[slot]))
                                = TreeApartFromShade(unwrap(trees[slot]))]_vars
    /\ [](pc = "apply" /\ event_index < Len(tree_events) =>
             LET event == tree_events[event_index + 1]
             IN  event.type = "Plant" =>
                    LET tile == tile_index(event.pos.coord.x, event.pos.coord.y)
                    IN  per_tile_tree_count[tile] < NUM_TREES_PER_TILE =>
                           trees[tree_slot_index(tile, per_tile_tree_count[tile])] = None)

\* The apply loop is at a Kill or Delete whose cell an earlier event of the
\* tick has planted into or cleared a slot of, and its tree is in its slot.
C32_Witness ==
    /\ pc = "apply"
    /\ event_index > 0
    /\ event_index < Len(tree_events)
    /\ LET event == tree_events[event_index + 1]
       IN  /\ event.type \in {"Kill", "Delete"}
           /\ is_some(trees[event.tree_slot_index])
           /\ \E j \in 1 .. event_index :
                 LET tile == event.tree_slot_index \div NUM_TREES_PER_TILE
                     e    == tree_events[j]
                 IN  \/ e.type = "Plant" /\ tile_index(e.pos.coord.x, e.pos.coord.y) = tile
                     \/ /\ e.type \in {"Kill", "Delete"}
                        /\ e.tree_slot_index \div NUM_TREES_PER_TILE = tile
                        /\ trees[e.tree_slot_index] = None

\* The trees of a cell in the order of their slots.
CellSeq(trs, tile) ==
    SelectSeq([t \in 1 .. NUM_TREES_PER_TILE |-> trs[tree_slot_index(tile, t - 1)]],
              is_some)

(***************************************************************************)
(* C33.  pack_trees keeps exactly the same trees in the cell (none lost,   *)
(* none duplicated, no field of any tree changed), keeps their relative    *)
(* slot order, and touches no slot of any other cell.                      *)
(***************************************************************************)
C33_PackKeepsTrees ==
    (pc \in {"packed", "repacked"}) =>
        /\ CellSeq(trees, arg.tile) = CellSeq(arg.gs.trees, arg.tile)
        /\ \A s \in Slots : s \div NUM_TREES_PER_TILE # arg.tile => trees[s] = arg.gs.trees[s]

\* pack_trees has moved two trees or more down over a hole, in their order,
\* while another cell holds a tree.
C33_Witness ==
    /\ pc = "packed"
    /\ Len(CellSeq(trees, arg.tile)) >= 2
    /\ ~is_some(arg.gs.trees[tree_slot_index(arg.tile, 0)])
    /\ \A i \in 1 .. Len(CellSeq(trees, arg.tile)) :
          trees[tree_slot_index(arg.tile, i - 1)] = CellSeq(arg.gs.trees, arg.tile)[i]
    /\ \A i, j \in 1 .. Len(CellSeq(trees, arg.tile)) :
          i # j => CellSeq(trees, arg.tile)[i] # CellSeq(trees, arg.tile)[j]
    /\ \E tile \in Tiles \ {arg.tile} : CountOccupied(trees, tile) > 0

(***************************************************************************)
(* One success of the seeding loop and the plant_tree of its Plant event,  *)
(* with the offsets as f32 values (in units of 2^-(MantissaBits + 2)       *)
(* tiles, rounded as position.rs rounds them).  The parent is held in arg  *)
(* and the store is empty: the cell and the position of the planted tree   *)
(* do not depend on the trees around it.  The store keeps its lengths in   *)
(* twentieths of a tile, and the position goes into it in that unit.       *)
(***************************************************************************)
SowParents ==
    {[coord |-> [x |-> cx, y |-> 0], offset |-> [x |-> ox, y |-> oy]] :
        cx \in {0, 1},
        ox \in {0, 1, F32_ONE \div 2, F32_ONE - (F32_ONE \div 8)},
        oy \in {0, F32_ONE \div 2}}

\* radius * (cos angle, sin angle): along the axes, where the other
\* component is 0 or the little that the rounding of the angle leaves, and
\* on the diagonals.
SowOffsets ==
    {[x |-> x, y |-> y] :
        x \in {0 - F32_ONE, 0 - (F32_ONE \div 2), 0 - 1, 0, 1, F32_ONE \div 2, F32_ONE},
        y \in {0 - (F32_ONE \div 2), 0 - 1, 0, F32_ONE \div 2}}
    \ {[x |-> x, y |-> y] : x \in {0 - 1, 0, 1}, y \in {0 - 1, 0}}

\* The f32 position in the unit of the store: 1.0 is TILE_DIM, and what is
\* below 1.0 is below TILE_DIM.
InTwentieths(pos) ==
    [pos EXCEPT !.offset = [x |-> (pos.offset.x * TILE_DIM) \div F32_ONE,
                            y |-> (pos.offset.y * TILE_DIM) \div F32_ONE]]

InitSow ==
    /\ \E gs \in {EmptyStore} : StoreIs(gs)
    /\ AtRest
    /\ pc = "sow"
    /\ \E position \in SowParents, offset \in SowOffsets, species \in SpeciesChoices :
          arg = [op |-> "seed", position |-> position, offset |-> offset,
                 species |-> species]
    /\ ret = None

\* let plant_position = tree.position + TileOffset { x, y }; the Plant event
\* is pushed if the position is on the grid, and applied by plant_tree.
Sow ==
    /\ pc = "sow"
    /\ pc' = "sown"
    /\ LET plant_position == add_offset_f32(arg.position, arg.offset)
       IN  /\ ret' = plant_position
           /\ IF InGrid(plant_position)
              THEN SetStore(plant_tree(store, InTwentieths(plant_position), arg.species))
              ELSE UNCHANGED <<trees, per_tile_tree_count, count_trees>>
    /\ UNCHANGED <<arg, tick>>

NextSow == Sow

SpecSow == InitSow /\ [][NextSow]_vars

\* The tree in the slot stands in the cell its position names, with both
\* offset components in [0, 1).
InOwnCell(s) ==
    LET position == unwrap(trees[s]).position
    IN  /\ position.coord = TileCoord(s \div NUM_TREES_PER_TILE)
        /\ position.offset.x >= 0 /\ position.offset.x < TILE_DIM
        /\ position.offset.y >= 0 /\ position.offset.y < TILE_DIM

(***************************************************************************)
(* C34.  Every tree stored in a slot of cell (x, y) has position tile      *)
(* coordinate (x, y) and both offset components in [0,1), from planting    *)
(* until deletion: planting, event application and compaction never place  *)
(* or move a tree into a cell other than the one its position names.       *)
(***************************************************************************)
C34_TreeInOwnCell == \A s \in OccupiedSlots : InOwnCell(s)

\* A seed that fell a hair to the left of its parent's tile edge is planted
\* in the tile to the left with the offset 1.0.
C34_Witness ==
    /\ pc = "sown"
    /\ \E s \in OccupiedSlots :
          /\ unwrap(trees[s]).position = InTwentieths(ret)
          /\ unwrap(trees[s]).position.offset.x = TILE_DIM
          /\ ret.coord = TileCoord(s \div NUM_TREES_PER_TILE)
          /\ ret.coord.x = arg.position.coord.x - 1
          /\ ret.offset.x = F32_ONE
          /\ arg.position.offset.x + arg.offset.x < 0

\* The share of the light a tree of the stage lets through, in thousandths.
StageLight(stage) ==
    CASE stage = "Seedling" -> 990
      [] stage = "Sapling"  -> 900
      [] stage \in {"Mature", "Old"} -> 500
      [] OTHER -> 1000

\* The product over the trees in the cell's slots 0 .. n-1.
RECURSIVE LightProduct(_, _)
LightProduct(tile, n) ==
    IF n = 0 THEN ONE
    ELSE FMul(LightProduct(tile, n - 1),
              StageLight(unwrap(trees[tree_slot_index(tile, n - 1)]).stage))

(***************************************************************************)
(* C35.  After each non-paused tick, every cell's light_amount equals the  *)
(* product, over the trees in that cell's slots 0..count-1 as they stand   *)
(* after the same tick's tree update pass (events applied and cells        *)
(* compacted), of 0.99 per Seedling, 0.9 per Sapling, 0.5 per Mature or    *)
(* Old tree and 1 for every other stage; it is therefore in (0, 1].        *)
(***************************************************************************)
C35_LightIsProduct ==
    (Idle /\ ticks > 0) =>
        \A tile \in Tiles :
            /\ tile_light_amt[tile] = LightProduct(tile, per_tile_tree_count[tile])
            /\ tile_light_amt[tile] > 0
            /\ tile_light_amt[tile] <= ONE

\* A tick has ended whose events changed the trees of a cell that holds an
\* Old tree and has a light_amount below 1.
C35_Witness ==
    /\ Idle
    /\ ~paused
    /\ \E i \in 1 .. Len(tree_events) :
          LET e    == tree_events[i]
              tile == IF e.type = "Plant" THEN tile_index(e.pos.coord.x, e.pos.coord.y)
                      ELSE e.tree_slot_index \div NUM_TREES_PER_TILE
          IN  /\ tile_light_amt[tile] < ONE
              /\ \E t \in 0 .. (per_tile_tree_count[tile] - 1) :
                    unwrap(trees[tree_slot_index(tile, t)]).stage = "Old"

(***************************************************************************)
(* The neighbour count of update_grass on its own, for a Dirt tile of the  *)
(* grid of MaxGrassDim x MaxGrassDim tiles: in a corner, on an edge, on    *)
(* the diagonal and off it, with any number of its ring Grass.             *)
(***************************************************************************)
CountFocus ==
    GrassFocus \cup {<<0, 3>>, <<3, 0>>, <<MaxGrassDim - 1, 2>>,
                     <<MaxGrassDim - 1, MaxGrassDim - 1>>, <<0, MaxGrassDim - 1>>}

InitCount ==
    /\ \E gs \in {EmptyStore} : StoreIs(gs)
    /\ \E f \in CountFocus : \E p \in GrassPatterns(f) :
          /\ tiles = GrassGrid(f, "Dirt", p.grassy, p.around)
          /\ arg = [op |-> "grassy_neighbor_count", x |-> f[1], y |-> f[2]]
    /\ new_grass_state = tiles
    /\ tile_light_amt = [t \in GrassTiles |-> ONE]
    /\ grass_x = arg.x
    /\ grass_y = arg.y
    /\ paused = FALSE
    /\ dt_s = 0
    /\ scan_tile = 0
    /\ scan_tree = 0
    /\ trial = 0
    /\ tree_events = <<>>
    /\ event_index = 0
    /\ tiles_to_repack = {}
    /\ ticks = 1
    /\ seeds = 0
    /\ pc = "count"
    /\ ret = None

CountNeighbours ==
    /\ pc = "count"
    /\ pc' = "counted"
    /\ ret' = grassy_neighbor_count(MaxGrassDim, GridRead(tiles, new_grass_state),
                                    grass_x, grass_y)
    /\ UNCHANGED <<arg, trees, per_tile_tree_count, count_trees, tick>>

NextCount == CountNeighbours

SpecCount == InitCount /\ [][NextCount]_vars

\* The cells the claim has the count consider: the in-bounds cells of the
\* 3x3 block around (x, y) whose x differs from their y.
Considered(x, y) ==
    {c \in GrassTiles :
        /\ GrassXY(c)[1] - x \in {0 - 1, 0, 1}
        /\ GrassXY(c)[2] - y \in {0 - 1, 0, 1}
        /\ GrassXY(c)[1] # GrassXY(c)[2]}

(***************************************************************************)
(* C36.  When the Grass neighbours of a Dirt cell (x, y) are counted, the  *)
(* cells considered are exactly the in-bounds cells of the 3x3 block       *)
(* around (x, y) whose absolute x coordinate differs from their absolute   *)
(* y coordinate; out-of-bounds cells are skipped, and each considered cell *)
(* that is Grass in the pre-tick grid adds 1 to the count.                 *)
(***************************************************************************)
C36_NeighboursCounted ==
    pc = "counted" =>
        ret = Cardinality({c \in Considered(arg.x, arg.y) : tiles[c].cover = "Grass"})

\* The count of a tile on the diagonal has left out a Grass neighbour that
\* lies on the diagonal too, and has counted the others.
C36_Witness ==
    /\ pc = "counted"
    /\ arg.x = arg.y
    /\ ret > 0
    /\ ret < Cardinality({c \in GrassTiles : GrassXY(c) \in Ring(<<arg.x, arg.y>>)
                                             /\ tiles[c].cover = "Grass"})

(***************************************************************************)
(* A Kill applied to a tree that leaves a Snag, and the ticks after it:    *)
(* the scan grows the Snag by dt_s at the base rate (a dead tree's         *)
(* growth_multiplier is 1.0) until it is a Stump.                          *)
(***************************************************************************)
\* a frame, a second, three seconds
DecaySteps == {ONE \div 60, ONE, 3 * ONE}

\* A tree that has just reached its stage, and one that sits at its target.
DecayTrees ==
    UNION {{[Staged(sp, st, KilledPosition) EXCEPT !.growth = g] :
                g \in {TargetAt(sp, StageRank(st) - 1) + 1, TargetAt(sp, StageRank(st))}} :
              sp \in AllSpecies, st \in {"Sapling", "Mature", "Old", "Decline"}}

InitDecay ==
    /\ \E t \in DecayTrees :
          LET gs == ShadeAll(PutAll(EmptyStore, <<t>>))
          IN  /\ StoreIs(gs)
              /\ arg = [op |-> "kill_tree", tree_slot_index |-> tree_slot_index(0, 0), gs |-> gs]
    /\ tiles = InitTiles
    /\ tile_light_amt = [t \in Tiles |-> 0]
    /\ new_grass_state = InitTiles
    /\ grass_x = 0
    /\ grass_y = 0
    /\ paused = FALSE
    /\ dt_s \in DecaySteps
    /\ scan_tile = 0
    /\ scan_tree = 0
    /\ trial = 0
    /\ tree_events = <<>>
    /\ event_index = 0
    /\ tiles_to_repack = {}
    /\ ticks = 0
    /\ seeds = 0
    /\ pc = "kill"
    /\ ret = None

\* The scan of a later tick at the killed tree: growth_multiplier is 1.0,
\* no Kill is pushed, tree.grow(dt_s * growth_multiplier).
DecayGrow ==
    /\ pc = "killed"
    /\ is_some(trees[arg.tree_slot_index])
    /\ unwrap(trees[arg.tree_slot_index]).stage = "Snag"
    /\ trees' = GrownTrees(trees, arg.tree_slot_index, tiles[0].soil)
    /\ UNCHANGED <<per_tile_tree_count, count_trees, arg, ret, pc, tick>>

NextDecay == KillTree \/ DecayGrow

SpecDecay == InitDecay /\ [][NextDecay]_vars

\* The tree the Kill was applied to, as it is now.
KilledNow == unwrap(trees[arg.tree_slot_index])

(***************************************************************************)
(* C37.  A tree turned into a Snag by a Kill event stays a Snag until it   *)
(* has accumulated, after the kill, at least the species' Snag growth      *)
(* requirement of further growth, i.e. it decays for as long as a tree     *)
(* that became a Snag by ageing.                                           *)
(***************************************************************************)
C37_KilledSnagDecaysInFull ==
    (pc = "killed" /\ KilledNow.growth - KilledBefore.growth
                         < unwrap(growth_required(KilledBefore.species, "Snag")))
        => KilledNow.stage = "Snag"

\* A Mature tree was killed and is a Stump one tick later.
C37_Witness ==
    /\ pc = "killed"
    /\ KilledBefore.stage = "Mature"
    /\ KilledNow.stage = "Stump"
    /\ KilledNow.growth = KilledBefore.growth + dt_s

(***************************************************************************)
(* The simulation run on without end: update() is called again and again,  *)
(* paused or not, and every call that is not paused runs to its end.  The  *)
(* count of ticks is left alone, and update_grass draws one sample (the    *)
(* ground cover has no part in what becomes of a tree).                    *)
(***************************************************************************)
UpdateOn(pause, dt) ==
    /\ pc = "idle"
    /\ paused' = pause
    /\ IF pause
       THEN UNCHANGED <<pc, dt_s, scan_tile, scan_tree>>
       ELSE LET first == ScanFrom(per_tile_tree_count, 0, 0)
            IN  /\ dt_s' = dt
                /\ scan_tile' = first.tile
                /\ scan_tree' = first.tree
                /\ pc' = IF first.tile >= GRID_SIZE THEN "apply" ELSE "scan"
    /\ tree_events' = <<>>
    /\ event_index' = 0
    /\ tiles_to_repack' = {}
    /\ trial' = 0
    /\ UNCHANGED <<trees, per_tile_tree_count, count_trees, ticks, seeds, grass, call>>

GrassCellOn == GrassStep(GRID_DIM, {ROLL_ONE})

\* update() is called and is not paused, with dt > 0.
Tick == \E dt \in DtChoices : UpdateOn(FALSE, dt)

\* A call of update() that has begun goes on: to its next phase or to its end.
Phases == {"idle", "scan", "seed", "apply", "repack", "grass"}
RunsOn == pc # "idle" /\ pc' \in Phases

\* The scan is at a tree that is a Stump once grown (a dead tree is grown at
\* the base rate and never killed) and its 1-in-500 roll comes out: a Delete
\* is pushed.
StumpRollSucceeds ==
    /\ pc = "scan"
    /\ LET slot_index == tree_slot_index(scan_tile, scan_tree)
           tree       == unwrap(trees[slot_index])
       IN  /\ ~is_alive(tree)
           /\ grow(tree, dt_s).stage = "Stump"
           /\ Len(tree_events) < MAX_NUM_EVENTS
           /\ tree_events' = Append(tree_events,
                                 [type |-> "Delete", tree_slot_index |-> slot_index])

NextLive ==
    \/ \E pause \in BOOLEAN, dt \in DtChoices : UpdateOn(pause, dt)
    \/ ScanTree
    \/ SeedTrial
    \/ ApplyEvent
    \/ Repack
    \/ GrassCellOn

\* The stores of new() whose trees stand on the corner of their tile.
LiveStores ==
    {gs \in NewStores(NUM_INITIAL_TREES) :
        \A s \in Slots : is_some(gs.trees[s]) =>
            unwrap(gs.trees[s]).position.offset = [x |-> 0, y |-> 0]}

InitLive ==
    /\ \E gs \in LiveStores : StoreIs(gs)
    /\ AtRest
    /\ pc = "idle"
    /\ arg = None
    /\ ret = None

SpecLive ==
    /\ InitLive
    /\ [][NextLive]_vars
    /\ WF_vars(Tick)
    /\ WF_pc(RunsOn)
    /\ SF_tree_events(StumpRollSucceeds)

(***************************************************************************)
(* C38.  If every non-paused tick has dt > 0 and the 1-in-500 Stump        *)
(* deletion roll is fair, every tree in the store is eventually removed    *)
(* from it: each tree either is killed and removed as a Sprout/Seedling,   *)
(* or advances stage by stage to Stump and is then deleted.  No more than  *)
(* MaxSeeds trees are ever planted here, so the store is empty in the end. *)
(***************************************************************************)
C38_EveryTreeRemoved == <>[](OccupiedSlots = {})

\* Apart from the trees whose shade_factor is NaN, every tree is removed.
C38_ApartFromNaN ==
    <>[](\A s \in OccupiedSlots : unwrap(trees[s]).shade_factor.kind = "nan")

\* update() has returned and the only tree left is a Sprout whose
\* shade_factor and growth are NaN: the scan neither kills nor advances it.
C38_Witness ==
    /\ pc = "idle"
    /\ Cardinality(OccupiedSlots) = 1
    /\ \A s \in OccupiedSlots :
          /\ unwrap(trees[s]).stage = "Sprout"
          /\ unwrap(trees[s]).shade_factor.kind = "nan"
          /\ unwrap(trees[s]).growth = NaN
          /\ ~FLe(growth_multiplier(unwrap(trees[s]), tiles[s \div NUM_TREES_PER_TILE].soil),
                  KILL_THRESHOLD)
          /\ grow(unwrap(trees[s]), NaN) = unwrap(trees[s])

(***************************************************************************)
(* C39.  An update() call with input.pause = true changes no tile cover,   *)
(* no soil type, no light amount, no tree slot, no per-cell count and not  *)
(* the running total; only the camera position and zoom, the debug flags   *)
(* and the paused flag may change.  (The call returns at once: no phase of *)
(* update_trees or update_grass runs while paused is set.)                 *)
(***************************************************************************)
C39_PausedUpdateFrame ==
    /\ [][(pc = "idle" /\ paused') =>
             /\ pc' = "idle"
             /\ UNCHANGED <<tiles, tile_light_amt, trees, per_tile_tree_count,
                            count_trees>>]_vars
    /\ [](paused => pc = "idle")

\* A paused update() has returned after ticks that left trees in the store
\* and lowered the light of a tile.
C39_Witness ==
    /\ pc = "idle"
    /\ paused
    /\ ticks > 0
    /\ OccupiedSlots # {}
    /\ \E t \in Tiles : tile_light_amt[t] < ONE /\ tile_light_amt[t] > 0

(***************************************************************************)
(* main.rs: the MainEventsCleared handler.  Durations in microseconds.     *)
(* The game is one whose trees are gone and whose tiles are all Grass in   *)
(* full light, so that an update() that is not paused changes nothing in   *)
(* it; `arg` holds the locals of main, `ret` the Input last passed.        *)
(***************************************************************************)
UPS_TARGET == 120
MICROS == ONE * ONE
update_target_dt == MICROS \div UPS_TARGET

MaxFrames == 3

\* update_timer.elapsed(): nothing, half a step, a step but for 0.1 ms on
\* either side, a step, a step and a bit, more than two and than three steps.
Elapsed ==
    {0, update_target_dt \div 2, update_target_dt - 100, update_target_dt,
     update_target_dt + 100, update_target_dt + 700,
     (2 * update_target_dt) + 400, (3 * update_target_dt) + 50}

\* input.dt as update() passes it to update_trees: as_secs_f32(), in thousandths.
AsSecs(duration) == (duration * ONE) \div MICROS

InitHost ==
    /\ StoreIs(EmptyStore)
    /\ tiles = InitTiles
    /\ tile_light_amt = [t \in Tiles |-> ONE]
    /\ new_grass_state = InitTiles
    /\ grass_x = 0
    /\ grass_y = 0
    /\ paused = FALSE
    /\ dt_s = 0
    /\ scan_tile = 0
    /\ scan_tree = 0
    /\ trial = 0
    /\ tree_events = <<>>
    /\ event_index = 0
    /\ tiles_to_repack = {}
    /\ ticks = 0
    /\ seeds = 0
    /\ pc = "frame"
    /\ arg = [op |-> "main", sim_time |-> 0, accumulator |-> 0, count |-> 0,
              frames |-> 0, renders |-> 0]
    /\ ret = None

\* Event::MainEventsCleared, up to the while loop.
FrameBegins ==
    /\ pc = "frame"
    /\ arg.frames < MaxFrames
    /\ \E measured \in Elapsed :
          LET diff    == measured - update_target_dt
              elapsed == IF diff < 200 /\ 0 - diff < 200
                         THEN update_target_dt ELSE measured
          IN  arg' = [arg EXCEPT !.accumulator = @ + elapsed,
                                 !.count = 0,
                                 !.frames = @ + 1]
    /\ pc' = "steps"
    /\ UNCHANGED <<trees, per_tile_tree_count, count_trees, ret, tick>>

\* One iteration of `while accumulator > update_target_dt`, with its
\* game_state.update(&input); input.pause is false.
HostStep ==
    /\ pc = "steps"
    /\ arg.accumulator > update_target_dt
    /\ arg' = [arg EXCEPT !.count = @ + 1,
                          !.sim_time = @ + update_target_dt,
                          !.accumulator = @ - update_target_dt]
    \* input.dt = update_target_dt * 2; input.t = sim_time
    /\ ret' = [dt |-> update_target_dt * 2, t |-> arg.sim_time + update_target_dt]
    /\ paused' = FALSE
    /\ dt_s' = AsSecs(ret'.dt)
    /\ ticks' = ticks + 1
    /\ tile_light_amt' = [t \in Tiles |-> ONE]
    \* no tree to scan and no event; every tile is Grass in light 1.0 and stays so
    /\ UNCHANGED <<trees, per_tile_tree_count, count_trees, pc, tiles, new_grass_state,
                   grass_x, grass_y, scan_tile, scan_tree, trial, tree_events,
                   event_index, tiles_to_repack, seeds>>

\* The loop is left, and render_state.try_render(&game_state, ..) is called.
Render ==
    /\ pc = "steps"
    /\ ~(arg.accumulator > update_target_dt)
    /\ arg' = [arg EXCEPT !.renders = @ + 1]
    /\ pc' = "frame"
    /\ UNCHANGED <<trees, per_tile_tree_count, count_trees, ret, tick>>

NextHost == FrameBegins \/ HostStep \/ Render

SpecHost == InitHost /\ [][NextHost]_vars

\* A simulation step is taken.
Stepped == pc = "steps" /\ arg'.count = arg.count + 1

\* Everything the claim says but for the dt passed.
HostLoopRules ==
    /\ [][Stepped => /\ arg'.accumulator = arg.accumulator - update_target_dt
                     /\ arg'.sim_time = arg.sim_time + update_target_dt
                     /\ arg.accumulator > update_target_dt]_vars
    /\ [][(pc = "steps" /\ arg.accumulator > update_target_dt) => Stepped]_vars
    /\ [](pc = "frame" => /\ arg.accumulator <= update_target_dt
                          /\ arg.renders = arg.frames)
    /\ [](pc = "steps" => arg.renders = arg.frames - 1)

(***************************************************************************)
(* C40.  In the host loop, each simulation step removes exactly one fixed  *)
(* step (update_target_dt) from the accumulator, advances sim_time by that *)
(* same amount and passes that same fixed step as dt to update(); steps    *)
(* run while the accumulator exceeds one fixed step, so when the loop ends *)
(* the accumulator is at most one fixed step, and rendering happens once   *)
(* after the steps of that frame.                                          *)
(***************************************************************************)
C40_FixedStepLoop ==
    /\ HostLoopRules
    /\ [][Stepped => /\ ret'.dt = update_target_dt
                     /\ dt_s' = AsSecs(update_target_dt)]_vars

\* What holds of the loop: the rules, with twice the fixed step passed as dt.
C40_ApartFromDt ==
    /\ HostLoopRules
    /\ [][Stepped => ret'.dt = 2 * update_target_dt]_vars

\* The second step of a frame has been taken: sim_time has advanced by two
\* fixed steps since the game began, and update() was handed four.
C40_Witness ==
    /\ pc = "steps"
    /\ arg.count = 2
    /\ arg.frames = 1
    /\ arg.sim_time = 2 * update_target_dt
    /\ ret.dt = 2 * update_target_dt
    /\ ret.t = arg.sim_time
    /\ ticks = 2
====
